---- MODULE Spec2Model ----
(***************************************************************************)
(* Oil-spill simulation: mesh topology construction and the finite-volume  *)
(* upwind solver (src/simulation/mesh/*.py, src/simulation/simulation.py), *)
(* the configuration loader (config.py) and run_config (controller.py).    *)
(*                                                                         *)
(* Specifications.  Spec: the mesh pipeline and one solver call.           *)
(* MeshSpec: the methods of one Mesh in any order, and a fresh CellFactory *)
(* called with one record.  FactorySpec: a CellFactory extended with       *)
(* register, then called.  SessionSpec: Spec with solver called again and  *)
(* compute_flow_field called in between.  ConfigSpec: run_config from      *)
(* load_config to the files it leaves.                                     *)
(*                                                                         *)
(* Arithmetic.  The program computes in IEEE doubles; the model computes   *)
(* in exact rationals <<n, d>> (d > 0, lowest terms), so that algebraic    *)
(* statements (flux balance, conservation) are statements about the        *)
(* algorithm and not about rounding.  The only transcendental function,    *)
(* np.exp in initial_oil_concentration, is evaluated by a rational         *)
(* approximant rounded down to a fixed resolution.                         *)
(*                                                                         *)
(* Python containers.  A list is a sequence (index i of the list is        *)
(* position i+1), a dict is a function on its key set, a tuple of two node *)
(* ids is <<a, b>>.  A value stored in a neighbour map is either the       *)
(* empty list that defaultdict(list) supplies, written <<>>, or an int k,  *)
(* written <<k>>.                                                          *)
(***************************************************************************)
EXTENDS Integers, Sequences, FiniteSets, TLC

(***************************************************************************)
(* Bounds of the model                                                     *)
(***************************************************************************)
\* largest number_of_steps passed to solver
MaxSteps == 2

\* largest number of method calls made on one Mesh by a caller other than
\* run_config
MaxCalls == 6

\* the most register calls made on one CellFactory
MaxRegistrations == 2

(***************************************************************************)
(* Exact rational arithmetic                                               *)
(***************************************************************************)
Abs(x) == IF x < 0 THEN -x ELSE x

RECURSIVE GCD(_, _)
GCD(a, b) == IF b = 0 THEN a ELSE GCD(b, a % b)

\* the rational n/d in lowest terms with positive denominator (d # 0)
R(n, d) ==
    LET g == GCD(Abs(n), Abs(d))
        s == IF d < 0 THEN -1 ELSE 1
    IN  <<(s * n) \div g, (s * d) \div g>>

Zero == <<0, 1>>
One == <<1, 1>>
Two == <<2, 1>>

RNeg(a) == <<-a[1], a[2]>>

RAdd(a, b) ==
    LET g == GCD(a[2], b[2])
    IN  R(a[1] * (b[2] \div g) + b[1] * (a[2] \div g), (a[2] \div g) * b[2])

RSub(a, b) == RAdd(a, RNeg(b))

RMul(a, b) ==
    LET g1 == GCD(Abs(a[1]), b[2])
        g2 == GCD(Abs(b[1]), a[2])
    IN  R((a[1] \div g1) * (b[1] \div g2), (a[2] \div g2) * (b[2] \div g1))

\* a / b for b # 0
RDiv(a, b) == RMul(a, IF b[1] < 0 THEN <<-b[2], -b[1]>> ELSE <<b[2], b[1]>>)

RLt(a, b) == RSub(a, b)[1] < 0
RLe(a, b) == RSub(a, b)[1] <= 0
RAbs(a) == <<Abs(a[1]), a[2]>>

\* integer part of a non-negative rational
RFloor(a) == a[1] \div a[2]

RECURSIVE RSum(_)
\* sum(values) of a list of rationals
RSum(s) == IF s = <<>> THEN Zero ELSE RAdd(Head(s), RSum(Tail(s)))

\* 2-vectors of rationals
VAdd(u, v) == <<RAdd(u[1], v[1]), RAdd(u[2], v[2])>>
VSub(u, v) == <<RSub(u[1], v[1]), RSub(u[2], v[2])>>
VNeg(u) == <<RNeg(u[1]), RNeg(u[2])>>
VScale(u, k) == <<RMul(u[1], k), RMul(u[2], k)>>
\* np.dot(u, v)
Dot(u, v) == RAdd(RMul(u[1], v[1]), RMul(u[2], v[2]))

RECURSIVE VSum(_)
VSum(s) == IF s = <<>> THEN <<Zero, Zero>> ELSE VAdd(Head(s), VSum(Tail(s)))

\* np.mean(vectors, axis=0) of a non-empty list of 2-vectors
VMean(s) == VScale(VSum(s), R(1, Len(s)))

(***************************************************************************)
(* Python dict helpers                                                     *)
(***************************************************************************)
EmptyDict == << >>

\* d[k] = v
Put(d, k, v) == (k :> v) @@ d

\* the empty list a defaultdict(list) supplies for a missing key
DefaultList == << >>

\* value read from a defaultdict(list)
DGet(d, k) == IF k \in DOMAIN d THEN d[k] ELSE DefaultList

\* the defaultdict after a read of key k (a missing key is inserted)
DTouch(d, k) == IF k \in DOMAIN d THEN d ELSE Put(d, k, DefaultList)

(***************************************************************************)
(* Cells: Cell.__init__, Line, Triangle                                    *)
(***************************************************************************)
\* the pair in the order the nodes are listed
UnsortedPair(a, b) == <<a, b>>

\* tuple(sorted((a, b)))
SortedPair(a, b) == IF a <= b THEN <<a, b>> ELSE <<b, a>>

\* Line.define_edges (the node count is 2)
LineEdges(nodes) == << SortedPair(nodes[1], nodes[2]) >>

\* Triangle.define_edges (the node count is 3)
TriangleEdges(nodes) ==
    << SortedPair(nodes[1], nodes[2]),
       SortedPair(nodes[2], nodes[3]),
       SortedPair(nodes[3], nodes[1]) >>

RECURSIVE DistinctInOrder(_, _)
\* the keys of a dict built from the node list, in insertion order
DistinctInOrder(nodes, seen) ==
    IF nodes = <<>> THEN <<>>
    ELSE IF Head(nodes) \in seen THEN DistinctInOrder(Tail(nodes), seen)
    ELSE <<Head(nodes)>> \o DistinctInOrder(Tail(nodes), seen \cup {Head(nodes)})

\* list(coords.values())
CoordValues(nodes, coords) ==
    LET keys == DistinctInOrder(nodes, {})
    IN  [i \in 1..Len(keys) |-> coords[keys[i]]]

\* Triangle.compute_center_point: the mean of the node coordinates
compute_center_point(nodes, coords) == VMean(CoordValues(nodes, coords))

\* the shoelace sum halved without the absolute value
compute_area_signed(nodes, coords) ==
    LET ps == CoordValues(nodes, coords)
        p1 == ps[1]
        p2 == ps[2]
        p3 == ps[3]
    IN  RDiv(RAdd(RAdd(RMul(p1[1], RSub(p2[2], p3[2])),
                       RMul(p2[1], RSub(p3[2], p1[2]))),
                  RMul(p3[1], RSub(p1[2], p2[2]))), Two)

\* Triangle.compute_area: |shoelace| / 2 over the three vertices in node order
compute_area(nodes, coords) ==
    LET ps == CoordValues(nodes, coords)
        p1 == ps[1]
        p2 == ps[2]
        p3 == ps[3]
    IN  RAbs(RDiv(RAdd(RAdd(RMul(p1[1], RSub(p2[2], p3[2])),
                            RMul(p2[1], RSub(p3[2], p1[2]))),
                       RMul(p3[1], RSub(p1[2], p2[2]))), Two))

\* the rotated edge vector stored as it is, without the test against the centre
EdgeNormalNoFlip(edge, coords, center_point) ==
    LET edge_vector == VSub(coords[edge[2]], coords[edge[1]])
    IN  <<RNeg(edge_vector[2]), edge_vector[1]>>

\* One entry of Triangle.compute_normal.  The code divides the rotated edge
\* vector by its norm, flips it when it points to the centre, and multiplies
\* it by the edge length; the norm of the rotated vector is the edge length,
\* so the stored normal is the rotated vector with the sign the test gives
\* (the test's sign does not change under division by the positive norm).
EdgeNormal(edge, coords, center_point) ==
    LET p1 == coords[edge[1]]
        p2 == coords[edge[2]]
        edge_vector == VSub(p2, p1)
        normal_vector == <<RNeg(edge_vector[2]), edge_vector[1]>>
        midpoint == VScale(VAdd(p1, p2), R(1, 2))
        to_center == VSub(center_point, midpoint)
    IN  IF RLt(Zero, Dot(normal_vector, to_center))
        THEN VNeg(normal_vector)
        ELSE normal_vector

\* Triangle.compute_normal: edge -> outward normal scaled to the edge length
compute_normal(edges, coords, center_point) ==
    [e \in {edges[i] : i \in 1..Len(edges)} |-> EdgeNormal(e, coords, center_point)]

\* Line(cell_id, nodes, coords)
Line(cell_id, nodes, coords) ==
    [id |-> cell_id, type |-> "line", nodes |-> nodes,
     edges |-> LineEdges(nodes), coords |-> coords,
     neighbour_ids |-> EmptyDict]

\* Triangle(cell_id, nodes, coords)
Triangle(cell_id, nodes, coords) ==
    LET edges == TriangleEdges(nodes)
        center == compute_center_point(nodes, coords)
    IN  [id |-> cell_id, type |-> "triangle", nodes |-> nodes,
         edges |-> edges, coords |-> coords,
         neighbour_ids |-> EmptyDict,
         center_point |-> center,
         normals |-> compute_normal(edges, coords, center),
         area |-> compute_area(nodes, coords),
         mean_flow |-> EmptyDict,
         concentration |-> Zero]

\* the value of a variable that holds no object
NoCell == [type |-> "none"]

\* the exception Line(cell_id, nodes, coords) raises, or "none": the assert of
\* Line.define_edges
LineError(nodes) == IF Len(nodes) # 2 THEN "AssertionError" ELSE "none"

\* norm == 0 in Triangle.compute_normal: the two ends of the edge coincide
ZeroLength(edge, coords) == coords[edge[1]] = coords[edge[2]]

\* the arity test with only too few nodes refused
TriangleErrorAtLeast(nodes, coords) ==
    IF Len(nodes) < 3 THEN "AssertionError"
    ELSE IF \E i \in 1..3 : ZeroLength(TriangleEdges(nodes)[i], coords) THEN "ValueError"
    ELSE "none"

\* the constructor with the zero-norm test of compute_normal left out: what
\* is left is the unpacking of three coordinates in compute_area, which fails
\* when a node is listed twice
TriangleErrorNoNormTest(nodes, coords) ==
    IF Len(nodes) # 3 THEN "AssertionError"
    ELSE IF Cardinality({nodes[i] : i \in 1..3}) # 3 THEN "ValueError"
    ELSE "none"

\* the exception Triangle(cell_id, nodes, coords) raises, or "none": the assert
\* of Triangle.define_edges (run by Cell.__init__), then the ValueError of
\* compute_normal at the first edge of zero length
TriangleError(nodes, coords) ==
    IF Len(nodes) # 3 THEN "AssertionError"
    ELSE IF \E i \in 1..3 : ZeroLength(TriangleEdges(nodes)[i], coords) THEN "ValueError"
    ELSE "none"

\* CellFactory.__init__: the registry, type tag -> class
DefaultCellTypes == [key \in {"line", "triangle"} |->
                        IF key = "line" THEN "Line" ELSE "Triangle"]

\* DummyRectangle.define_edges of the unit tests (the node count is 4)
RectangleEdges(nodes) ==
    << SortedPair(nodes[1], nodes[2]),
       SortedPair(nodes[2], nodes[3]),
       SortedPair(nodes[3], nodes[4]),
       SortedPair(nodes[4], nodes[1]) >>

\* DummyRectangle(cell_id, nodes, coords): a Cell subclass with no __init__ of
\* its own, so the object has the fields of Cell.__init__ only
DummyRectangle(cell_id, nodes, coords) ==
    [id |-> cell_id, type |-> "rectangle", nodes |-> nodes,
     edges |-> RectangleEdges(nodes), coords |-> coords,
     neighbour_ids |-> EmptyDict]

\* the exception DummyRectangle(cell_id, nodes, coords) raises, or "none"
RectangleError(nodes) == IF Len(nodes) # 4 THEN "AssertionError" ELSE "none"

\* the classes a caller can register, and the value of the type property of
\* the objects of each
Classes == {"Line", "Triangle", "DummyRectangle"}
TypeOf(class) ==
    IF class = "Line" THEN "line"
    ELSE IF class = "Triangle" THEN "triangle"
    ELSE "rectangle"

\* the class called with (id, nodes, coords): the exception and the object
Construct(class, cell_id, nodes, coords) ==
    LET error == IF class = "Line" THEN LineError(nodes)
                 ELSE IF class = "DummyRectangle" THEN RectangleError(nodes)
                 ELSE TriangleError(nodes, coords)
    IN  [err |-> error,
         cell |-> IF error # "none" THEN NoCell
                  ELSE IF class = "Line" THEN Line(cell_id, nodes, coords)
                  ELSE IF class = "DummyRectangle"
                       THEN DummyRectangle(cell_id, nodes, coords)
                  ELSE Triangle(cell_id, nodes, coords)]

\* a register that stores the class whether or not the tag is there
registerOverwrite(cell_types, key, type) == Put(cell_types, key, type)

\* CellFactory.register: the registry after register(key, type)
register(cell_types, key, type) ==
    IF key \notin DOMAIN cell_types THEN Put(cell_types, key, type) ELSE cell_types

\* a factory that looks built-in tags up in the registry it was made with
CellFactoryDefaultsOnly(cell_types, cell) ==
    IF cell.type \notin DOMAIN DefaultCellTypes
    THEN [err |-> "KeyError", cell |-> NoCell]
    ELSE Construct(DefaultCellTypes[cell.type], cell.id, cell.nodes, cell.coords)

\* a factory that builds a Triangle for every tag it does not know
CellFactoryLenient(cell_types, cell) ==
    Construct(IF cell.type \in DOMAIN cell_types THEN cell_types[cell.type] ELSE "Triangle",
              cell.id, cell.nodes, cell.coords)

\* CellFactory.__call__: self._cell_types[key] raises KeyError for a tag that
\* is not registered, before any class is called
CellFactory(cell_types, cell) ==
    IF cell.type \notin DOMAIN cell_types
    THEN [err |-> "KeyError", cell |-> NoCell]
    ELSE Construct(cell_types[cell.type], cell.id, cell.nodes, cell.coords)

(***************************************************************************)
(* Mesh: create_cells, build_topology, assign_neighbours                   *)
(***************************************************************************)
\* the record with ids counted from 1
CellRecordOneBased(type, cell_id, nodes, pts) ==
    [type |-> type, id |-> cell_id + 1, nodes |-> nodes,
     coords |-> [p \in {nodes[i] : i \in 1..Len(nodes)} |-> pts[p + 1]]]

\* the record create_cells hands to the factory for one row of a cell block
CellRecord(type, cell_id, nodes, pts) ==
    [type |-> type, id |-> cell_id, nodes |-> nodes,
     coords |-> [p \in {nodes[i] : i \in 1..Len(nodes)} |-> pts[p + 1]]]

RECURSIVE AppendRows(_, _, _, _)
\* the inner loop of create_cells over the rows of one cell block: the cell
\* list and the exception that ended the loop, if any
AppendRows(cs, type, rows, pts) ==
    IF rows = <<>> THEN [cells |-> cs, err |-> "none"]
    ELSE LET made == CellFactory(DefaultCellTypes,
                                 CellRecord(type, Len(cs), Head(rows), pts))
         IN  IF made.err # "none"
             THEN [cells |-> cs, err |-> made.err]
             ELSE AppendRows(Append(cs, made.cell), type, Tail(rows), pts)

RECURSIVE create_cells(_, _, _)
\* Mesh.create_cells: the cell list after the loop over the cell blocks, or
\* after the part of it run before an exception left it
create_cells(cs, blocks, pts) ==
    IF blocks = <<>> THEN [cells |-> cs, err |-> "none"]
    ELSE IF Head(blocks).type = "vertex" THEN create_cells(cs, Tail(blocks), pts)
    ELSE LET r == AppendRows(cs, Head(blocks).type, Head(blocks).data, pts)
         IN  IF r.err # "none" THEN r
             ELSE create_cells(r.cells, Tail(blocks), pts)

RECURSIVE IndexEdgesOverwrite(_, _, _)
\* the inner loop storing the id in place of the list instead of appending
IndexEdgesOverwrite(me, edges, cell_id) ==
    IF edges = <<>> THEN me
    ELSE IndexEdgesOverwrite(Put(me, Head(edges), <<cell_id>>), Tail(edges), cell_id)

RECURSIVE IndexEdges(_, _, _)
\* the inner loop of build_topology over the edges of one cell
\* (self._mesh_edges[edge] makes the list of a new edge, append extends it)
IndexEdges(me, edges, cell_id) ==
    IF edges = <<>> THEN me
    ELSE IF Head(edges) \in DOMAIN me
    THEN IndexEdges([me EXCEPT ![Head(edges)] = Append(@, cell_id)], Tail(edges), cell_id)
    ELSE IndexEdges(Put(me, Head(edges), Append(DefaultList, cell_id)), Tail(edges), cell_id)

RECURSIVE build_topology(_, _)
\* Mesh.build_topology: mesh_edges after visiting the cells cs in order
build_topology(me, cs) ==
    IF cs = <<>> THEN me
    ELSE build_topology(IndexEdges(me, Head(cs).edges, Head(cs).id), Tail(cs))

RECURSIVE PickNeighbourNoSelfTest(_, _, _, _)
\* the innermost loop without the test neighbour_id != cell._id
PickNeighbourNoSelfTest(nb, edge, ids, cell_id) ==
    IF ids = <<>> THEN nb
    ELSE PickNeighbourNoSelfTest(Put(nb, edge, <<Head(ids)>>), edge, Tail(ids), cell_id)

RECURSIVE PickNeighbour(_, _, _, _)
\* the innermost loop of assign_neighbours: every id of the edge's list that is
\* not the cell's own id is stored under the edge, a later one over an earlier
PickNeighbour(nb, edge, ids, cell_id) ==
    IF ids = <<>> THEN nb
    ELSE PickNeighbour(IF Head(ids) # cell_id THEN Put(nb, edge, <<Head(ids)>>) ELSE nb,
                       edge, Tail(ids), cell_id)

RECURSIVE CellNeighbours(_, _, _, _)
\* the loop of assign_neighbours over the edges of one cell
CellNeighbours(nb, edges, me, cell_id) ==
    IF edges = <<>> THEN nb
    ELSE CellNeighbours(PickNeighbour(nb, Head(edges), DGet(me, Head(edges)), cell_id),
                        Tail(edges), me, cell_id)

\* Mesh.assign_neighbours: the cells with their neighbour maps filled in
assign_neighbours(cs, me) ==
    [i \in 1..Len(cs) |->
        [cs[i] EXCEPT !.neighbour_ids =
            CellNeighbours(cs[i].neighbour_ids, cs[i].edges, me, cs[i].id)]]

\* mesh_edges after assign_neighbours: reading a missing edge inserts it
RECURSIVE TouchEdges(_, _)
TouchEdges(me, edges) ==
    IF edges = <<>> THEN me
    ELSE IF Head(edges) \in DOMAIN me THEN TouchEdges(me, Tail(edges))
    ELSE TouchEdges(Put(me, Head(edges), DefaultList), Tail(edges))

RECURSIVE TouchAllEdges(_, _)
TouchAllEdges(me, cs) ==
    IF cs = <<>> THEN me ELSE TouchAllEdges(TouchEdges(me, Head(cs).edges), Tail(cs))

(***************************************************************************)
(* Simulation: pure parts                                                  *)
(***************************************************************************)
\* Simulation._source_point = (0.305, 0.45)
source_point == <<R(305, 1000), R(45, 100)>>

\* resolution to which the value of np.exp is rounded down
ExpResolution == R(1, 20)

\* np.exp(-t) for t >= 0: the approximant 1 / (1 + t + t^2/2), rounded down to
\* a multiple of ExpResolution (1 at t = 0, decreasing, 0 far from 0)
ExpNeg(t) ==
    LET approx == RDiv(One, RAdd(RAdd(One, t), RDiv(RMul(t, t), Two)))
    IN  RMul(<<RFloor(RDiv(approx, ExpResolution)), 1>>, ExpResolution)

\* Simulation.initial_oil_concentration:
\* exp(-norm(location - source_point)**2 / 0.01)
initial_oil_concentration(location) ==
    LET d == VSub(location, source_point)
    IN  ExpNeg(RDiv(Dot(d, d), R(1, 100)))

\* the field of a plain rotation, without the term -0.2 * x
compute_flow_field_rotation(location) == <<location[2], RNeg(location[1])>>

\* Simulation.compute_flow_field: (y - 0.2 * x, -x)
compute_flow_field(location) ==
    <<RSub(location[2], RMul(R(2, 10), location[1])), RNeg(location[1])>>

\* oil_velocity without the upwind choice: the flux always takes the cell's own
\* concentration
oil_velocity_own(outer_normal, mean_flow, concentration, concentration_neighbour) ==
    RMul(concentration, Dot(mean_flow, outer_normal))

\* oil_velocity with the choice reversed: the concentration of the cell the
\* flow goes to
oil_velocity_downwind(outer_normal, mean_flow, concentration, concentration_neighbour) ==
    LET velocity_oil_direction == Dot(mean_flow, outer_normal)
    IN  IF RLt(Zero, velocity_oil_direction)
        THEN RMul(concentration_neighbour, velocity_oil_direction)
        ELSE RMul(concentration, velocity_oil_direction)

\* Simulation.oil_velocity: the upwind flux over one edge
oil_velocity(outer_normal, mean_flow, concentration, concentration_neighbour) ==
    LET velocity_oil_direction == Dot(mean_flow, outer_normal)
    IN  IF RLt(Zero, velocity_oil_direction)
        THEN RMul(concentration, velocity_oil_direction)
        ELSE RMul(concentration_neighbour, velocity_oil_direction)

\* Python's truth value of a neighbour-map value: an int is true unless it is 0,
\* the empty list is false
Truthy(v) == Len(v) = 1 /\ v[1] # 0

\* the value is an int, usable as a list index
IsIndex(v) == Len(v) = 1

\* mesh.cells[cell_id]
CellAt(cs, cell_id) == cs[cell_id + 1]

\* the mean flow of an edge with a still-water neighbour assumed wherever the
\* lookup gives no cell to average with
EdgeMeanFlowStillWater(cs, cell, edge) ==
    LET own == compute_flow_field(cell.center_point)
        neighbour_id == DGet(cell.neighbour_ids, edge)
    IN  IF Truthy(neighbour_id) /\ CellAt(cs, neighbour_id[1]).type # "line"
        THEN VMean(<<own, compute_flow_field(CellAt(cs, neighbour_id[1]).center_point)>>)
        ELSE VMean(<<own, <<Zero, Zero>> >>)

\* the body of the edge loop of initial_conditions: the mean flow of one edge
EdgeMeanFlow(cs, cell, edge) ==
    LET own == <<compute_flow_field(cell.center_point)>>
        neighbour_id == DGet(cell.neighbour_ids, edge)
        vectors ==
            IF Truthy(neighbour_id)
            THEN IF CellAt(cs, neighbour_id[1]).type # "line"
                 THEN Append(own, compute_flow_field(CellAt(cs, neighbour_id[1]).center_point))
                 ELSE own
            ELSE own
    IN  VMean(vectors)

\* the body of the cell loop of initial_conditions for one cell
InitCell(cs, cell) ==
    IF cell.type = "line" THEN cell
    ELSE [cell EXCEPT
            !.concentration = initial_oil_concentration(cell.center_point),
            !.neighbour_ids = TouchEdges(cell.neighbour_ids, cell.edges),
            !.mean_flow = [e \in {cell.edges[i] : i \in 1..Len(cell.edges)}
                              |-> EdgeMeanFlow(cs, cell, e)]]

\* Simulation.initial_conditions: it reads only the geometry and the neighbour
\* ids of other cells, which it does not change, so the cells are independent
initial_conditions(cs) == [i \in 1..Len(cs) |-> InitCell(cs, cs[i])]

(***************************************************************************)
(* Simulation.solver: the parts of one step                                *)
(***************************************************************************)
\* an edge of the cell whose neighbour lookup yields the empty list, on which
\* mesh.cells[neighbour_id] raises TypeError
MissingNeighbour(cell) ==
    \E i \in 1..Len(cell.edges) : ~IsIndex(DGet(cell.neighbour_ids, cell.edges[i]))

RECURSIVE TouchUntilGap(_, _)
\* the neighbour map after the lookups of the edge loop up to the one that fails
TouchUntilGap(nb, edges) ==
    IF edges = <<>> THEN nb
    ELSE IF ~IsIndex(DGet(nb, Head(edges))) THEN DTouch(nb, Head(edges))
    ELSE TouchUntilGap(nb, Tail(edges))

RECURSIVE EdgeFluxes(_, _, _)
\* edges_net_flux after the edge loop of one Triangle none of whose lookups fails:
\* one flux per edge whose neighbour is not a line, in edge order
EdgeFluxes(cs, cell, edges) ==
    IF edges = <<>> THEN <<>>
    ELSE LET edge == Head(edges)
             neighbour_cell == CellAt(cs, cell.neighbour_ids[edge][1])
         IN  IF neighbour_cell.type = "line"
             THEN EdgeFluxes(cs, cell, Tail(edges))
             ELSE <<oil_velocity(cell.normals[edge], cell.mean_flow[edge],
                                 cell.concentration, neighbour_cell.concentration)>>
                  \o EdgeFluxes(cs, cell, Tail(edges))

\* the update with the sign of the flux term lost
NewConcentrationPlus(cell, fluxes, dt) ==
    RAdd(cell.concentration, RDiv(RMul(RSum(fluxes), dt), cell.area))

\* new_concentration = concentration - (sum(edges_net_flux) * delta_t) / area
NewConcentration(cell, fluxes, dt) ==
    LET total_flux == RNeg(RDiv(RMul(RSum(fluxes), dt), cell.area))
    IN  RAdd(cell.concentration, total_flux)

\* the cell loop body writing the new value into the cell at once
StageCellInPlace(cs, tmp, fl, k, dt) ==
    IF cs[k].type = "line"
    THEN [cells |-> cs, tmp |-> tmp, fluxes |-> fl]
    ELSE LET fluxes == EdgeFluxes(cs, cs[k], cs[k].edges)
             new_concentration == NewConcentration(cs[k], fluxes, dt)
         IN  [cells |-> [cs EXCEPT ![k].neighbour_ids = TouchEdges(@, cs[k].edges),
                                   ![k].concentration = new_concentration],
              tmp |-> Put(tmp, cs[k].id, new_concentration),
              fluxes |-> fluxes]

\* The body of the cell loop for the cell at list position k: the cells, the
\* staging dict and the local edges_net_flux after it.  A line is skipped
\* before edges_net_flux is reset, so the local keeps its value.  The lookups
\* cell.neighbour_ids[edge] are reads of a defaultdict.
StageCell(cs, tmp, fl, k, dt) ==
    IF cs[k].type = "line"
    THEN [cells |-> cs, tmp |-> tmp, fluxes |-> fl]
    ELSE LET fluxes == EdgeFluxes(cs, cs[k], cs[k].edges)
         IN  [cells |-> [cs EXCEPT ![k].neighbour_ids = TouchEdges(@, cs[k].edges)],
              tmp |-> Put(tmp, cs[k].id, NewConcentration(cs[k], fluxes, dt)),
              fluxes |-> fluxes]

\* a commit that gives every cell, lines too, a concentration
CommitCellsAll(cs, tmp) ==
    [i \in 1..Len(cs) |->
        [f \in (DOMAIN cs[i]) \cup {"concentration"} |->
            IF f = "concentration"
            THEN (IF (i - 1) \in DOMAIN tmp THEN tmp[i - 1] ELSE Zero)
            ELSE cs[i][f]]]

\* the commit loop: cells[cell_id].concentration = concentration_tmp[cell_id]
CommitCells(cs, tmp) ==
    [i \in 1..Len(cs) |->
        IF (i - 1) \in DOMAIN tmp
        THEN [cs[i] EXCEPT !.concentration = tmp[i - 1]]
        ELSE cs[i]]

\* the filter with exclusive bounds
InFishingGroundsStrict(cell, b) ==
    /\ cell.type # "line"
    /\ RLt(b[1][1], cell.center_point[1]) /\ RLt(cell.center_point[1], b[1][2])
    /\ RLt(b[2][1], cell.center_point[2]) /\ RLt(cell.center_point[2], b[2][2])

\* the filter of the aggregate: not a Line, centre inside the borders, inclusive
InFishingGrounds(cell, b) ==
    /\ cell.type # "line"
    /\ RLe(b[1][1], cell.center_point[1]) /\ RLe(cell.center_point[1], b[1][2])
    /\ RLe(b[2][1], cell.center_point[2]) /\ RLe(cell.center_point[2], b[2][2])

RECURSIVE total_oil(_, _)
\* sum(cell.concentration * cell.area for cell in cells if ...), in list order
total_oil(cs, b) ==
    IF cs = <<>> THEN Zero
    ELSE RAdd(IF InFishingGrounds(Head(cs), b)
              THEN RMul(Head(cs).concentration, Head(cs).area)
              ELSE Zero,
              total_oil(Tail(cs), b))

\* the loop test off by one
LoopContinuesOneMore(s, n) == s <= n

\* the loop test of solver: while step < number_of_steps
LoopContinues(s, n) == s < n

RECURSIVE StageAll(_, _, _, _, _)
\* the cell loop of one step from list position k on: the cells and the
\* staging dict after it
StageAll(cs, tmp, fl, k, dt) ==
    IF k > Len(cs) THEN [cells |-> cs, tmp |-> tmp]
    ELSE LET r == StageCell(cs, tmp, fl, k, dt)
         IN  IF r.fluxes = fl /\ r.tmp = tmp
             THEN StageAll(r.cells, tmp, fl, k + 1, dt)
             ELSE StageAll(r.cells, r.tmp, r.fluxes, k + 1, dt)

\* one pass of the body of the while loop of solver: the cells after the
\* commit and the total it appends to the series
solver_step(cs, b, dt) ==
    LET staged == StageAll(cs, EmptyDict, <<>>, 1, dt)
        committed == CommitCells(staged.cells, staged.tmp)
    IN  [cells |-> committed, total_oil |-> total_oil(committed, b)]

RECURSIVE solver(_, _, _, _, _)
\* Simulation.solver as a whole, on a mesh where no lookup fails: the cells and
\* the series after number_of_steps passes of the loop
solver(cs, series, b, n, dt) ==
    IF n = 0 THEN [cells |-> cs, series |-> series]
    ELSE LET r == solver_step(cs, b, dt)
         IN  solver(r.cells, Append(series, r.total_oil), b, n - 1, dt)

(***************************************************************************)
(* config.py: load_config                                                  *)
(***************************************************************************)
\* A value of a parsed TOML file with its Python type: num is the value of a
\* number (1 and 0 for True and False), text of a string, items of a list,
\* fields of a table.
Value(type, num, text, items, fields) ==
    [type |-> type, num |-> num, text |-> text, items |-> items, fields |-> fields]
TomlInt(n) == Value("int", R(n, 1), "", <<>>, EmptyDict)
TomlFloat(r) == Value("float", r, "", <<>>, EmptyDict)
TomlBool(b) == Value("bool", IF b THEN One ELSE Zero, "", <<>>, EmptyDict)
TomlStr(t) == Value("str", Zero, t, <<>>, EmptyDict)
TomlList(items) == Value("list", Zero, "", items, EmptyDict)
TomlTable(fields) == Value("table", Zero, "", <<>>, fields)
None == Value("NoneType", Zero, "", <<>>, EmptyDict)

\* isinstance(v, int) and isinstance(v, (int, float)): bool is a subclass of int
IsInstanceInt(v) == v.type \in {"int", "bool"}
IsInstanceNumber(v) == v.type \in {"int", "float", "bool"}

\* the value is a number, on which "key in v", "for row in v" and v.get fail
IsScalar(v) == v.type \in {"int", "float", "bool"}

\* what load_config gives when it raises
NoCfg == [loaded |-> FALSE]
Raise(exception) == [err |-> exception, value |-> NoCfg]

\* the rows of borders the loop "for row in borders" visits: the items of a
\* list, the characters of a string
BorderRows(v) == IF v.type = "str" THEN (IF v.text = "" THEN <<>> ELSE <<TomlStr(v.text)>>)
                 ELSE v.items

\* not isinstance(row, (list, tuple)) or len(row) != 2
BadRow(row) == row.type # "list" \/ Len(row.items) # 2

\* load_config from the tests of borders on: the loop over the rows, the two
\* unpackings, the type and order tests, then [IO] and the returned dict
load_config_borders(n_steps, t_end, mesh_name, v, io) ==
    LET rows == BorderRows(v)
    IN  IF IsScalar(v) THEN Raise("TypeError")
        ELSE IF \E i \in 1..Len(rows) : BadRow(rows[i]) THEN Raise("ConfigError")
        ELSE IF Len(rows) < 2 THEN Raise("IndexError")
        ELSE LET xmin == rows[1].items[1]
                 xmax == rows[1].items[2]
                 ymin == rows[2].items[1]
                 ymax == rows[2].items[2]
             IN  IF \E value \in {xmin, xmax, ymin, ymax} : ~IsInstanceNumber(value)
                 THEN Raise("ConfigError")
                 ELSE IF RLe(xmax.num, xmin.num) \/ RLe(ymax.num, ymin.num)
                 THEN Raise("ConfigError")
                 ELSE IF IsScalar(io) THEN Raise("AttributeError")
                 ELSE LET log_name == IF "logName" \in DOMAIN io.fields
                                      THEN io.fields["logName"] ELSE TomlStr("logfile")
                          write_frequency == IF "writeFrequency" \in DOMAIN io.fields
                                             THEN io.fields["writeFrequency"] ELSE None
                      IN  IF log_name.type # "str" THEN Raise("ConfigError")
                          ELSE IF write_frequency # None
                                  /\ (~IsInstanceInt(write_frequency)
                                         \/ RLe(write_frequency.num, Zero))
                          THEN Raise("ConfigError")
                          ELSE [err |-> "none",
                                value |-> [n_steps |-> n_steps,
                                           t_end |-> TomlFloat(t_end.num),
                                           mesh_name |-> mesh_name.text,
                                           borders |-> << <<xmin.num, xmax.num>>,
                                                          <<ymin.num, ymax.num>> >>,
                                           log_name |-> log_name.text,
                                           write_frequency |-> write_frequency]]

\* load_config(path): the dict returned, or the exception raised.  The
\* sections [settings], [geometry] and [IO] of the files read are tables or
\* numbers.
load_config(file) ==
    IF file.state = "missing" THEN Raise("ConfigError")
    ELSE IF file.state = "invalid" THEN Raise("ConfigError")
    ELSE LET raw_data == file.data
         IN  IF "settings" \notin DOMAIN raw_data THEN Raise("ConfigError")
             ELSE IF "geometry" \notin DOMAIN raw_data THEN Raise("ConfigError")
             ELSE LET settings == raw_data["settings"]
                      geometry == raw_data["geometry"]
                      io == IF "IO" \in DOMAIN raw_data THEN raw_data["IO"]
                            ELSE TomlTable(EmptyDict)
                  IN  IF IsScalar(settings) THEN Raise("TypeError")
                      ELSE IF "nSteps" \notin DOMAIN settings.fields THEN Raise("ConfigError")
                      ELSE IF "tEnd" \notin DOMAIN settings.fields THEN Raise("ConfigError")
                      ELSE LET n_steps == settings.fields["nSteps"]
                               t_end == settings.fields["tEnd"]
                           IN  IF ~IsInstanceInt(n_steps) \/ RLe(n_steps.num, Zero)
                               THEN Raise("ConfigError")
                               ELSE IF ~IsInstanceNumber(t_end) \/ RLe(t_end.num, Zero)
                               THEN Raise("ConfigError")
                               ELSE IF IsScalar(geometry) THEN Raise("TypeError")
                               ELSE IF "meshName" \notin DOMAIN geometry.fields
                               THEN Raise("ConfigError")
                               ELSE IF "borders" \notin DOMAIN geometry.fields
                               THEN Raise("ConfigError")
                               ELSE LET mesh_name == geometry.fields["meshName"]
                                    IN  IF mesh_name.type # "str" \/ mesh_name.text = ""
                                        THEN Raise("ConfigError")
                                        ELSE load_config_borders(n_steps, t_end, mesh_name,
                                                 geometry.fields["borders"], io)

(***************************************************************************)
(* Inputs                                                                  *)
(***************************************************************************)
\* a node on the grid of spacing 0.3
GridPoint(i, j) == <<R(3 * i, 10), R(3 * j, 10)>>

\* six nodes: the rectangle [0, 0.6] x [0.3, 0.6] around the source point
GridPoints ==
    << GridPoint(0, 1), GridPoint(1, 1), GridPoint(2, 1),
       GridPoint(0, 2), GridPoint(1, 2), GridPoint(2, 2) >>

\* the six nodes and a seventh at the place of node 0
DupPoints == Append(GridPoints, GridPoint(0, 1))

\* its four triangles and its six boundary segments, as rows of node ids
TriangleRows == << <<0, 1, 4>>, <<0, 4, 3>>, <<1, 2, 5>>, <<1, 5, 4>> >>
LineRows == << <<0, 1>>, <<1, 2>>, <<2, 5>>, <<5, 4>>, <<4, 3>>, <<3, 0>> >>

\* what read_mesh leaves in _points and _mesh_cell_blocks:
\*   lines_first      the blocks in the order vertex, line, triangle
\*   triangles_first  the triangle block before the line block (cell 0 is a Triangle)
\*   open_boundary    the boundary edge (0, 1) has no line cell
\*   doubled_line     the boundary edge (0, 1) has two line cells
\*   quad_block       a block of a type the factory has no class for
\*   coincident_nodes node 6 lies on node 0 and a triangle uses both
Meshes ==
    { [name |-> "lines_first", points |-> GridPoints,
       blocks |-> << [type |-> "vertex", data |-> << <<0>> >>],
                     [type |-> "line", data |-> LineRows],
                     [type |-> "triangle", data |-> TriangleRows] >>],
      [name |-> "triangles_first", points |-> GridPoints,
       blocks |-> << [type |-> "triangle", data |-> TriangleRows],
                     [type |-> "line", data |-> LineRows] >>],
      [name |-> "open_boundary", points |-> GridPoints,
       blocks |-> << [type |-> "line", data |-> Tail(LineRows)],
                     [type |-> "triangle", data |-> TriangleRows] >>],
      [name |-> "doubled_line", points |-> GridPoints,
       blocks |-> << [type |-> "triangle", data |-> TriangleRows],
                     [type |-> "line", data |-> <<Head(LineRows)>> \o LineRows] >>],
      [name |-> "quad_block", points |-> GridPoints,
       blocks |-> << [type |-> "line", data |-> LineRows],
                     [type |-> "quad", data |-> << <<0, 1, 4, 3>> >>],
                     [type |-> "triangle", data |-> TriangleRows] >>],
      [name |-> "coincident_nodes", points |-> DupPoints,
       blocks |-> << [type |-> "line", data |-> LineRows],
                     [type |-> "triangle",
                      data |-> << <<0, 1, 4>>, <<6, 4, 0>>, <<0, 4, 3>> >>] >>] }

\* the records a caller hands to a CellFactory directly: every tag with node
\* lists of every length from 1 to 4, in several orders, with a repeated node,
\* with two nodes at one place, with three nodes in a line
FactoryTags == {"line", "triangle", "quad", "vertex"}
FactoryNodes ==
    { <<0>>, <<0, 1>>, <<1, 0>>, <<4, 1>>, <<0, 6>>,
      <<0, 1, 4>>, <<4, 1, 0>>, <<1, 4, 0>>, <<0, 1, 2>>,
      <<0, 0, 1>>, <<0, 6, 1>>, <<1, 4, 6>>, <<0, 1, 4, 3>> }
FactoryIds == {0, 3}
Records ==
    { CellRecord(t, i, n, DupPoints) : t \in FactoryTags, i \in FactoryIds, n \in FactoryNodes }

\* borders ((xmin, xmax), (ymin, ymax)): the whole domain, and a rectangle with
\* two cell centres on its corners and two outside
BordersSet ==
    { << <<R(0, 1), R(6, 10)>>, <<R(3, 10), R(6, 10)>> >>,
      << <<R(2, 10), R(4, 10)>>, <<R(4, 10), R(5, 10)>> >> }

\* delta_t: one below the stability limit of every cell of the grid, one above
DeltaTs == { R(1, 10), R(1, 1) }

\* the points compute_flow_field is called with directly: the two of its unit
\* test, one with a negative coordinate, one cell centre of the grid
FlowPoints ==
    { <<R(4, 10), R(5, 10)>>, <<Zero, Zero>>, <<R(-3, 10), R(6, 10)>>, <<R(2, 10), R(4, 10)>> }

\* borders of a configuration file, as a list of two rows of two numbers
BordersValue(b) ==
    TomlList(<< TomlList(<<TomlFloat(b[1][1]), TomlFloat(b[1][2])>>),
            TomlList(<<TomlFloat(b[2][1]), TomlFloat(b[2][2])>>) >>)
WholeDomain == << <<R(0, 1), R(6, 10)>>, <<R(3, 10), R(6, 10)>> >>
InnerRectangle == << <<R(2, 10), R(4, 10)>>, <<R(4, 10), R(5, 10)>> >>

\* the keys of a complete configuration file with a value for each:
\*   [settings] nSteps = 2, tEnd = 0.2
\*   [geometry] meshName = "bay.msh", borders = [[0.0, 0.6], [0.3, 0.6]]
\*   [IO]       logName = "log", writeFrequency = 1
GoodConfig ==
    [nSteps |-> TomlInt(2), tEnd |-> TomlFloat(R(2, 10)),
     meshName |-> TomlStr("bay.msh"), borders |-> BordersValue(WholeDomain),
     logName |-> TomlStr("log"), writeFrequency |-> TomlInt(1)]

SectionKeys ==
    [settings |-> {"nSteps", "tEnd"}, geometry |-> {"meshName", "borders"},
     IO |-> {"logName", "writeFrequency"}]
Sections == {"settings", "geometry", "IO"}
ConfigKeys == {"nSteps", "tEnd", "meshName", "borders", "logName", "writeFrequency"}

\* the parsed file with the sections named, without the keys dropped, and
\* with the values of over in place of those of GoodConfig; over may also give
\* a value in place of a whole section
ConfigData(sections, dropped, over) ==
    [s \in sections |->
        IF s \in DOMAIN over THEN over[s]
        ELSE TomlTable([k \in SectionKeys[s] \ dropped |->
                        IF k \in DOMAIN over THEN over[k] ELSE GoodConfig[k]])]

\* the values put in place of one value of the complete file
Overrides ==
    { <<"nSteps", TomlInt(1)>>, <<"nSteps", TomlBool(TRUE)>>, <<"nSteps", TomlInt(0)>>,
      <<"nSteps", TomlInt(-1)>>, <<"nSteps", TomlFloat(R(2, 1))>>, <<"nSteps", TomlStr("2")>>,
      <<"tEnd", TomlInt(2)>>, <<"tEnd", TomlInt(0)>>, <<"tEnd", TomlFloat(R(-1, 2))>>,
      <<"tEnd", TomlStr("1")>>,
      <<"meshName", TomlStr("")>>, <<"meshName", TomlInt(3)>>,
      <<"borders", BordersValue(InnerRectangle)>>,
      <<"borders", BordersValue(<< <<R(6, 10), R(0, 1)>>, <<R(3, 10), R(6, 10)>> >>)>>,
      <<"borders", BordersValue(<< <<R(0, 1), R(6, 10)>>, <<R(3, 10), R(3, 10)>> >>)>>,
      <<"borders", TomlInt(1)>>,
      <<"borders", TomlStr("")>>,
      <<"borders", TomlStr("whole")>>,
      <<"borders", TomlList(<<>>)>>,
      <<"borders", TomlList(<< TomlList(<<TomlFloat(Zero), TomlFloat(One)>>) >>)>>,
      <<"borders", TomlList(<< TomlFloat(Zero), TomlFloat(One) >>)>>,
      <<"borders", TomlList(<< TomlList(<<TomlFloat(Zero), TomlFloat(One), TomlFloat(Two)>>),
                          TomlList(<<TomlFloat(Zero), TomlFloat(One)>>) >>)>>,
      <<"borders", TomlList(<< TomlList(<<TomlFloat(Zero), TomlFloat(One)>>),
                          TomlList(<<TomlFloat(Zero), TomlStr("1")>>) >>)>>,
      <<"borders", TomlList(<< TomlList(<<TomlFloat(Zero), TomlFloat(R(6, 10))>>),
                          TomlList(<<TomlFloat(R(3, 10)), TomlFloat(R(6, 10))>>),
                          TomlList(<<TomlFloat(One), TomlFloat(Zero)>>) >>)>>,
      <<"logName", TomlInt(1)>>,
      <<"writeFrequency", TomlInt(2)>>, <<"writeFrequency", TomlInt(0)>>,
      <<"writeFrequency", TomlFloat(One)>>,
      <<"settings", TomlInt(5)>>, <<"geometry", TomlInt(5)>>, <<"IO", TomlInt(5)>> }

\* the files at config_path: none, one that is not TOML, the complete one, and
\* the complete one with a section left out, a key left out, a value replaced
Parsed(data) == [state |-> "parsed", data |-> data]
ConfigFiles ==
    { [state |-> "missing", data |-> EmptyDict], [state |-> "invalid", data |-> EmptyDict],
      Parsed(ConfigData(Sections, {}, EmptyDict)) }
    \cup { Parsed(ConfigData(Sections \ {s}, {}, EmptyDict)) : s \in Sections }
    \cup { Parsed(ConfigData(Sections, {k}, EmptyDict)) : k \in ConfigKeys }
    \cup { Parsed(ConfigData(Sections, {}, o[1] :> o[2])) : o \in Overrides }

\* what is at results/<config stem> when run_config is called: nothing, a
\* directory of an earlier run, a file
FolderStates == {"absent", "dir", "file"}

(***************************************************************************)
(* State                                                                   *)
(***************************************************************************)
VARIABLES
    points,                 \* Mesh._points
    mesh_cell_blocks,       \* Mesh._mesh_cell_blocks
    cells,                  \* Mesh._cells
    mesh_edges,             \* Mesh._mesh_edges
    borders,                \* Simulation._borders
    oil_in_fishing_grounds, \* Simulation._oil_in_fishing_grounds
    number_of_steps,        \* solver: parameter number_of_steps
    delta_t,                \* solver: parameter delta_t
    step,                   \* solver: local step
    concentration_tmp,      \* solver: local concentration_tmp
    edges_net_flux,         \* solver: local edges_net_flux of the last cell visited
    ci,                     \* solver: list position of the next cell of the cell loop
    pc,                     \* position in run_config / solver
    err,                    \* the exception that ended the run, or "none"
    calls,                  \* the Mesh methods called so far, in order, each with
                            \* what mesh.mesh_edges and the cells' neighbour_ids
                            \* showed when it returned
    record,                 \* the record handed to a CellFactory called directly
    product,                \* the object that call returned
    cell_types,             \* CellFactory._cell_types of that factory
    registrations,          \* the register calls made on it, in order: <<key, type>>
    point,                  \* the point handed to compute_flow_field called directly
    flow,                   \* the vector that call returned
    config_file,            \* run_config: the file at config_path
    cfg,                    \* run_config: what load_config returned or raised
    result_folder,          \* run_config: results/<config stem> and what is in it
    manager                 \* run_config: local manager

vars == <<points, mesh_cell_blocks, cells, mesh_edges, borders,
          oil_in_fishing_grounds, number_of_steps, delta_t, step,
          concentration_tmp, edges_net_flux, ci, pc, err, calls, record, product,
          cell_types, registrations, point, flow,
          config_file, cfg, result_folder, manager>>

meshVars == <<points, mesh_cell_blocks, cells, mesh_edges>>
factoryVars == <<record, product, cell_types, registrations>>
flowVars == <<point, flow>>
configVars == <<config_file, cfg, result_folder, manager>>
solverLocals == <<number_of_steps, delta_t, step, concentration_tmp, edges_net_flux, ci>>

NoBorders == << <<Zero, Zero>>, <<Zero, Zero>> >>

\* the value of point and flow before any call
NoPoint == <<>>

\* the values of the variables of run_config before it is called
NoFile == [state |-> "none", data |-> EmptyDict]
NotLoaded == [err |-> "not called", value |-> NoCfg]
NoFolder == [state |-> "absent", files |-> {}]

\* Mesh() just constructed; no Simulation yet
Init ==
    /\ points = <<>>
    /\ mesh_cell_blocks = <<>>
    /\ cells = <<>>
    /\ mesh_edges = EmptyDict
    /\ borders = NoBorders
    /\ oil_in_fishing_grounds = <<>>
    /\ number_of_steps = 0
    /\ delta_t = Zero
    /\ step = 0
    /\ concentration_tmp = EmptyDict
    /\ edges_net_flux = <<>>
    /\ ci = 0
    /\ pc = "new"
    /\ err = "none"
    /\ calls = <<>>
    /\ record = NoCell
    /\ product = NoCell
    /\ cell_types = DefaultCellTypes
    /\ registrations = <<>>
    /\ point = NoPoint
    /\ flow = NoPoint
    /\ config_file = NoFile
    /\ cfg = NotLoaded
    /\ result_folder = NoFolder
    /\ manager = "none"

(***************************************************************************)
(* run_config: the mesh pipeline                                           *)
(***************************************************************************)
\* one entry of calls: the method and what the properties mesh_edges and
\* cells[i].neighbour_ids show after it
Observed(method, me, cs) ==
    [method |-> method, mesh_edges |-> me,
     neighbour_ids |-> [i \in 1..Len(cs) |-> cs[i].neighbour_ids]]

\* read_mesh(file): meshio is outside the model, its result is an input
DoReadMesh(next) ==
    /\ \E m \in Meshes :
          /\ points' = m.points
          /\ mesh_cell_blocks' = m.blocks
    /\ pc' = next
    /\ calls' = Append(calls, Observed("read_mesh", mesh_edges, cells))
    /\ UNCHANGED <<cells, mesh_edges, borders, oil_in_fishing_grounds, solverLocals,
                   err, factoryVars,
                   flowVars, configVars>>

\* create_cells(): an exception of the factory leaves the method, the cells
\* appended before it stay in the list
DoCreateCells(next) ==
    /\ LET r == create_cells(cells, mesh_cell_blocks, points)
       IN  /\ cells' = r.cells
           /\ err' = r.err
           /\ pc' = IF r.err = "none" THEN next ELSE "aborted"
    /\ calls' = Append(calls, Observed("create_cells", mesh_edges, cells'))
    /\ UNCHANGED <<points, mesh_cell_blocks, mesh_edges, borders,
                   oil_in_fishing_grounds, solverLocals, factoryVars,
                   flowVars, configVars>>

\* build_topology()
DoBuildTopology(next) ==
    /\ mesh_edges' = build_topology(mesh_edges, cells)
    /\ pc' = next
    /\ calls' = Append(calls, Observed("build_topology", mesh_edges', cells))
    /\ UNCHANGED <<points, mesh_cell_blocks, cells, borders,
                   oil_in_fishing_grounds, solverLocals, err, factoryVars,
                   flowVars, configVars>>

\* assign_neighbours()
DoAssignNeighbours(next) ==
    /\ cells' = assign_neighbours(cells, mesh_edges)
    /\ mesh_edges' = TouchAllEdges(mesh_edges, cells)
    /\ pc' = next
    /\ calls' = Append(calls, Observed("assign_neighbours", mesh_edges', cells'))
    /\ UNCHANGED <<points, mesh_cell_blocks, borders,
                   oil_in_fishing_grounds, solverLocals, err, factoryVars,
                   flowVars, configVars>>

\* manager.read_mesh(file=mesh_name)
ReadMesh == pc = "new" /\ DoReadMesh("read")

\* manager.create_cells()
CreateCells == pc = "read" /\ DoCreateCells("cells")

\* manager.build_topology()
BuildTopology == pc = "cells" /\ DoBuildTopology("topology")

\* manager.assign_neighbours()
AssignNeighbours == pc = "topology" /\ DoAssignNeighbours("neighbours")

\* sim = Simulation(manager, borders, logger)
NewSimulation ==
    /\ pc = "neighbours"
    /\ \E b \in BordersSet : borders' = b
    /\ oil_in_fishing_grounds' = <<>>
    /\ pc' = "sim"
    /\ UNCHANGED <<meshVars, solverLocals, err, calls, factoryVars,
                   flowVars, configVars>>

\* sim.initial_conditions()
InitialConditions ==
    /\ pc = "sim"
    /\ cells' = initial_conditions(cells)
    /\ pc' = "initialised"
    /\ UNCHANGED <<points, mesh_cell_blocks, mesh_edges, borders,
                   oil_in_fishing_grounds, solverLocals, err, calls, factoryVars,
                   flowVars, configVars>>

(***************************************************************************)
(* Simulation.solver                                                       *)
(***************************************************************************)
\* where the step loop goes once its test has passed: into the cell loop, or
\* past it when there is no cell
EnterStep == IF Len(cells) = 0 THEN "solver_commit" ELSE "solver_cell"

\* an entry into solver that starts the series anew
DoSolverStartFresh(n, dt) ==
    /\ number_of_steps' = n
    /\ delta_t' = dt
    /\ pc' = IF LoopContinues(0, n) THEN EnterStep ELSE "done"
    /\ step' = 0
    /\ concentration_tmp' = EmptyDict
    /\ edges_net_flux' = <<>>
    /\ ci' = 1
    /\ oil_in_fishing_grounds' = <<>>
    /\ UNCHANGED <<meshVars, borders, err, calls, factoryVars, flowVars>>

\* solver(number_of_steps=n, delta_t=dt) from its entry up to the first test
\* of the loop: step = 0; the cells and the series are those the object has
DoSolverStart(n, dt) ==
    /\ number_of_steps' = n
    /\ delta_t' = dt
    /\ pc' = IF LoopContinues(0, n) THEN EnterStep ELSE "done"
    /\ step' = 0
    /\ concentration_tmp' = EmptyDict
    /\ edges_net_flux' = <<>>
    /\ ci' = 1
    /\ UNCHANGED <<meshVars, borders, oil_in_fishing_grounds, err, calls, factoryVars,
                   flowVars>>

\* sim.solver(number_of_steps=n, delta_t=dt), the first call
SolverStart ==
    /\ pc = "initialised"
    /\ \E n \in 0..MaxSteps, dt \in DeltaTs : DoSolverStart(n, dt)
    /\ UNCHANGED configVars

\* one pass of the body of "for cell in self._mesh.cells"
SolverCell ==
    /\ pc = "solver_cell"
    /\ IF cells[ci].type # "line" /\ MissingNeighbour(cells[ci])
       THEN \* mesh.cells[[]] raises TypeError, which leaves solver
            /\ pc' = "failed"
            /\ err' = "TypeError"
            /\ cells' = [cells EXCEPT ![ci].neighbour_ids =
                                          TouchUntilGap(@, cells[ci].edges)]
            /\ UNCHANGED <<concentration_tmp, edges_net_flux, ci>>
       ELSE LET r == StageCell(cells, concentration_tmp, edges_net_flux, ci, delta_t)
            IN  /\ cells' = r.cells
                /\ concentration_tmp' = r.tmp
                /\ edges_net_flux' = r.fluxes
                /\ ci' = ci + 1
                /\ pc' = IF ci = Len(cells) THEN "solver_commit" ELSE "solver_cell"
                /\ err' = err
    /\ UNCHANGED <<points, mesh_cell_blocks, mesh_edges, borders,
                   oil_in_fishing_grounds, number_of_steps, delta_t, step,
                   calls, factoryVars,
                   flowVars, configVars>>

\* the commit loop over concentration_tmp.items()
SolverCommit ==
    /\ pc = "solver_commit"
    /\ cells' = CommitCells(cells, concentration_tmp)
    /\ pc' = "solver_aggregate"
    /\ UNCHANGED <<points, mesh_cell_blocks, mesh_edges, borders,
                   oil_in_fishing_grounds, solverLocals, err, calls, factoryVars,
                   flowVars, configVars>>

\* total_oil, the append to the series, step = step + 1 and the loop test
DoSolverAggregate ==
    /\ pc = "solver_aggregate"
    /\ oil_in_fishing_grounds' = Append(oil_in_fishing_grounds, total_oil(cells, borders))
    /\ step' = step + 1
    /\ IF LoopContinues(step + 1, number_of_steps)
       THEN /\ concentration_tmp' = EmptyDict
            /\ ci' = 1
            /\ pc' = EnterStep
       ELSE /\ pc' = "done"
            /\ UNCHANGED <<concentration_tmp, ci>>
    /\ UNCHANGED <<meshVars, borders, number_of_steps, delta_t, edges_net_flux, err,
                   calls, factoryVars, flowVars>>

\* the end of a step of a solver called without write_frequency
SolverAggregate == DoSolverAggregate /\ UNCHANGED configVars

Next ==
    \/ ReadMesh
    \/ CreateCells
    \/ BuildTopology
    \/ AssignNeighbours
    \/ NewSimulation
    \/ InitialConditions
    \/ SolverStart
    \/ SolverCell
    \/ SolverCommit
    \/ SolverAggregate

Spec == Init /\ [][Next]_vars

(***************************************************************************)
(* The Mesh and the CellFactory used directly, as the unit tests use them: *)
(* the methods of one Mesh called in any order, any number of times, and   *)
(* single records handed to a CellFactory.                                 *)
(***************************************************************************)
\* mesh = Mesh(); mesh.read_mesh(path)
LoadMesh == pc = "new" /\ DoReadMesh("mesh")

\* the caller may go on while no exception was raised
MayCall == pc = "mesh" /\ Len(calls) < MaxCalls

\* mesh.create_cells()
CallCreateCells == MayCall /\ DoCreateCells("mesh")

\* mesh.build_topology()
CallBuildTopology == MayCall /\ DoBuildTopology("mesh")

\* mesh.assign_neighbours()
CallAssignNeighbours == MayCall /\ DoAssignNeighbours("mesh")

\* CellFactory()(record)
FactoryCall ==
    /\ pc = "new"
    /\ \E cell \in Records :
          LET made == CellFactory(DefaultCellTypes, cell)
          IN  /\ record' = cell
              /\ product' = made.cell
              /\ err' = made.err
              /\ pc' = IF made.err = "none" THEN "made" ELSE "aborted"
    /\ UNCHANGED <<meshVars, borders, oil_in_fishing_grounds, solverLocals, calls,
                   cell_types, registrations, flowVars, configVars>>

MeshNext ==
    \/ LoadMesh
    \/ CallCreateCells
    \/ CallBuildTopology
    \/ CallAssignNeighbours
    \/ FactoryCall

MeshSpec == Init /\ [][MeshNext]_vars

(***************************************************************************)
(* One CellFactory that a caller extends with register before calling it,  *)
(* as the unit tests of the registry do.                                   *)
(***************************************************************************)
\* the tags a caller registers: the two built-in ones and a new one
RegisterTags == {"line", "triangle", "rectangle"}

\* the records handed to the factory after the registrations: the three tags
\* and one that is never registered, with 2, 3 and 4 nodes
RegistryNodes == { <<0, 1>>, <<0, 1, 4>>, <<4, 1, 0>>, <<0, 6, 1>>, <<0, 1, 4, 3>> }
RegistryIds == {0, 99}
RegistryRecords ==
    { CellRecord(t, i, n, DupPoints) :
        t \in RegisterTags \cup {"quad"}, i \in RegistryIds, n \in RegistryNodes }

\* cell_factory.register(key, type)
Register ==
    /\ pc = "new"
    /\ Len(registrations) < MaxRegistrations
    /\ \E key \in RegisterTags, type \in Classes :
          /\ cell_types' = register(cell_types, key, type)
          /\ registrations' = Append(registrations, <<key, type>>)
    /\ UNCHANGED <<meshVars, borders, oil_in_fishing_grounds, solverLocals,
                   pc, err, calls, record, product, flowVars, configVars>>

\* cell_factory(cell_data)
Invoke ==
    /\ pc = "new"
    /\ \E cell \in RegistryRecords :
          LET made == CellFactory(cell_types, cell)
          IN  /\ record' = cell
              /\ product' = made.cell
              /\ err' = made.err
              /\ pc' = IF made.err = "none" THEN "returned" ELSE "raised"
    /\ UNCHANGED <<meshVars, borders, oil_in_fishing_grounds, solverLocals, calls,
                   cell_types, registrations, flowVars, configVars>>

FactoryNext ==
    \/ Register
    \/ Invoke

FactorySpec == Init /\ [][FactoryNext]_vars

(***************************************************************************)
(* One Simulation used for more than one call: solver called again after   *)
(* it returned, compute_flow_field called on the object at any time.       *)
(***************************************************************************)
\* sim.solver(number_of_steps=n, delta_t=dt) once more, with the delta_t of
\* the call before; the steps of all calls together stay within MaxSteps
SolverAgain ==
    /\ pc = "done"
    /\ \E n \in 0..(MaxSteps - Len(oil_in_fishing_grounds)) : DoSolverStart(n, delta_t)
    /\ UNCHANGED configVars

\* sim.compute_flow_field(point), between the calls of the other methods
FlowCall ==
    /\ pc \in {"sim", "initialised", "done"}
    /\ \E p \in FlowPoints :
          /\ point' = p
          /\ flow' = compute_flow_field(p)
    /\ pc' = "asked"
    /\ UNCHANGED <<meshVars, borders, oil_in_fishing_grounds, solverLocals, err, calls,
                   factoryVars, configVars>>

SessionNext ==
    \/ Next
    \/ SolverAgain
    \/ FlowCall

SessionSpec == Init /\ [][SessionNext]_vars

(***************************************************************************)
(* run_config as a whole: load_config, the mesh pipeline, the results      *)
(* folder, the Simulation, and the files written.  Here no Mesh exists     *)
(* before run_config makes one.                                            *)
(***************************************************************************)
\* a try statement that handles nothing
PropagatedAll(exception) == exception

\* the exception that leaves the try statement around load_config:
\* "except ConfigError" prints and returns, every other exception goes on
Propagated(exception) == IF exception = "ConfigError" THEN "none" ELSE exception

\* run_config(config_path) up to the end of the try statement; what is at
\* config_path and at results/<stem> is the caller's
LoadConfig ==
    /\ pc = "new"
    /\ cfg = NotLoaded
    /\ \E file \in ConfigFiles, state \in FolderStates :
          LET loaded == load_config(file)
          IN  /\ config_file' = file
              /\ result_folder' = [state |-> state, files |-> {}]
              /\ cfg' = loaded
              /\ err' = Propagated(loaded.err)
              /\ pc' = IF loaded.err = "none" THEN "loaded"
                       ELSE IF Propagated(loaded.err) = "none" THEN "returned"
                       ELSE "raised"
    /\ UNCHANGED <<meshVars, borders, oil_in_fishing_grounds, solverLocals, calls,
                   factoryVars, flowVars, manager>>

\* manager = Mesh()
NewMesh ==
    /\ pc = "loaded"
    /\ manager' = "Mesh"
    /\ points' = <<>>
    /\ mesh_cell_blocks' = <<>>
    /\ cells' = <<>>
    /\ mesh_edges' = EmptyDict
    /\ pc' = "manager"
    /\ UNCHANGED <<borders, oil_in_fishing_grounds, solverLocals, err, calls,
                   factoryVars, flowVars, config_file, cfg, result_folder>>

\* manager.read_mesh(file=mesh_name)
ConfigReadMesh == pc = "manager" /\ DoReadMesh("read")

\* a run that goes on into a folder that is there (mkdir with exist_ok)
ResultFolderExistOk ==
    /\ pc = "neighbours"
    /\ result_folder' = [result_folder EXCEPT
                            !.state = IF @ = "absent" THEN "created" ELSE @]
    /\ pc' = "folder"
    /\ UNCHANGED <<meshVars, borders, oil_in_fishing_grounds, solverLocals, err, calls,
                   factoryVars, flowVars, config_file, cfg, manager>>

\* the test of result_folder: RuntimeError when it exists, as a directory or
\* not, else mkdir(parents=True, exist_ok=False)
ResultFolder ==
    /\ pc = "neighbours"
    /\ IF result_folder.state # "absent"
       THEN /\ pc' = "raised"
            /\ err' = "RuntimeError"
            /\ UNCHANGED result_folder
       ELSE /\ pc' = "folder"
            /\ result_folder' = [state |-> "created", files |-> {}]
            /\ UNCHANGED err
    /\ UNCHANGED <<meshVars, borders, oil_in_fishing_grounds, solverLocals, calls,
                   factoryVars, flowVars, config_file, cfg, manager>>

\* the logger with its FileHandler, which makes <log_name>.log, and
\* sim = Simulation(manager, borders, logger)
StartSimulation ==
    /\ pc = "folder"
    /\ result_folder' = [result_folder EXCEPT !.files = @ \cup {"log"}]
    /\ borders' = cfg.value.borders
    /\ oil_in_fishing_grounds' = <<>>
    /\ pc' = "sim"
    /\ UNCHANGED <<meshVars, solverLocals, err, calls, factoryVars, flowVars,
                   config_file, cfg, manager>>

\* delta_t = t_end / n_steps
ConfigDeltaT == RDiv(cfg.value.t_end.num, cfg.value.n_steps.num)

\* tmp_dir.mkdir() and sim.solver(delta_t=delta_t, write_frequency=
\* write_frequency, tmp_dir=tmp_dir, number_of_steps=n_steps)
ConfigSolverStart ==
    /\ pc = "initialised"
    /\ result_folder' = [result_folder EXCEPT !.files = @ \cup {"tmp"}]
    /\ DoSolverStart(cfg.value.n_steps.num[1], ConfigDeltaT)
    /\ UNCHANGED <<config_file, cfg, manager>>

\* the step of the loop just run writes a plot into tmp_dir
WritesPlot ==
    /\ cfg.value.write_frequency # None
    /\ step % cfg.value.write_frequency.num[1] = 0

\* the end of a step of the solver run_config called
ConfigSolverAggregate ==
    /\ DoSolverAggregate
    /\ result_folder' = IF WritesPlot
                        THEN [result_folder EXCEPT !.files = @ \cup {"tmp/plots"}]
                        ELSE result_folder
    /\ UNCHANGED <<config_file, cfg, manager>>

\* after solver: plot_mesh, create_video when write_frequency is given, and
\* shutil.rmtree(tmp_dir)
Finish ==
    /\ pc = "done"
    /\ result_folder' =
          [result_folder EXCEPT !.files =
              ((@ \cup {"simulation_plot.png"})
                  \cup (IF cfg.value.write_frequency # None THEN {"simulation.mp4"} ELSE {}))
              \ {"tmp", "tmp/plots"}]
    /\ pc' = "finished"
    /\ UNCHANGED <<meshVars, borders, oil_in_fishing_grounds, solverLocals, err, calls,
                   factoryVars, flowVars, config_file, cfg, manager>>

ConfigNext ==
    \/ LoadConfig
    \/ NewMesh
    \/ ConfigReadMesh
    \/ CreateCells
    \/ BuildTopology
    \/ AssignNeighbours
    \/ ResultFolder
    \/ StartSimulation
    \/ InitialConditions
    \/ ConfigSolverStart
    \/ SolverCell
    \/ SolverCommit
    \/ ConfigSolverAggregate
    \/ Finish

ConfigSpec == Init /\ [][ConfigNext]_vars

(***************************************************************************)
(* Vocabulary of the properties                                            *)
(***************************************************************************)
TriangleIdx == {i \in 1..Len(cells) : cells[i].type = "triangle"}
LineIdx == {i \in 1..Len(cells) : cells[i].type = "line"}
EdgeSet(cell) == {cell.edges[i] : i \in 1..Len(cell.edges)}

\* the cell recorded as neighbour of cell across edge (the lookup gave an int)
NeighbourOf(cs, cell, edge) == CellAt(cs, cell.neighbour_ids[edge][1])

\* the edges of a Triangle across which a Triangle lies
TriangleEdgeSet(cs, cell) ==
    {e \in EdgeSet(cell) : /\ e \in DOMAIN cell.neighbour_ids
                           /\ IsIndex(cell.neighbour_ids[e])
                           /\ NeighbourOf(cs, cell, e).type = "triangle"}

\* the upwind rule as stated: c * v for v > 0, 0 for v = 0, c_neighbour * v for v < 0
UpwindRule(v, c, c_neighbour) ==
    IF RLt(Zero, v) THEN RMul(c, v)
    ELSE IF v = Zero THEN Zero
    ELSE RMul(c_neighbour, v)

\* v = dot(mean_flow, outer_normal) of an edge of a Triangle
EdgeV(cell, e) == Dot(cell.mean_flow[e], cell.normals[e])

\* the stated flux of Triangle cell across edge e, from the concentrations in cs
StatedFlux(cs, cell, e) ==
    UpwindRule(EdgeV(cell, e), cell.concentration, NeighbourOf(cs, cell, e).concentration)

RECURSIVE StatedFluxSum(_, _, _)
\* S: the sum of the stated fluxes over a set of edges
StatedFluxSum(cs, cell, E) ==
    IF E = {} THEN Zero
    ELSE LET e == CHOOSE x \in E : TRUE
         IN  RAdd(StatedFlux(cs, cell, e), StatedFluxSum(cs, cell, E \ {e}))

\* old - delta_t * S / area, S over the edges with a Triangle neighbour
StatedUpdate(cs, cell, dt) ==
    RSub(cell.concentration,
         RDiv(RMul(dt, StatedFluxSum(cs, cell, TriangleEdgeSet(cs, cell))), cell.area))

InSolverStep == pc \in {"solver_cell", "solver_commit", "solver_aggregate"}

(***************************************************************************)
(* C1                                                                      *)
(***************************************************************************)
\* C1: while the cell loop of a step runs no live concentration changes, and
\* when the commit begins a value is staged for every Triangle and every staged
\* value is the update computed from the concentrations still live, i.e. the
\* pre-step ones, whatever the position of the cell in the visiting order.
C1_StagedFromPreStep ==
    [][ /\ pc = "solver_cell" =>
              \A i \in TriangleIdx : cells'[i].concentration = cells[i].concentration
        /\ pc' = "solver_commit" =>
              /\ DOMAIN concentration_tmp' = {cells'[i].id : i \in TriangleIdx}
              /\ \A i \in TriangleIdx :
                    concentration_tmp'[cells'[i].id] = StatedUpdate(cells', cells'[i], delta_t')
      ]_vars

\* the second step is about to commit, and the staged values differ from the live ones
C1_Witness ==
    /\ pc = "solver_commit"
    /\ step = 1
    /\ \E i \in TriangleIdx : concentration_tmp[cells[i].id] # cells[i].concentration
    /\ \E i \in TriangleIdx : i < Len(cells) /\ TriangleEdgeSet(cells, cells[i]) # {}

(***************************************************************************)
(* C2                                                                      *)
(***************************************************************************)
\* C2: the commit of a step leaves in every Triangle T the value
\* old(T) - delta_t * S / area(T), S being the sum of the upwind fluxes over
\* exactly the edges of T whose neighbour is a Triangle.
C2_StepUpdate ==
    [][ pc = "solver_commit" =>
            \A i \in TriangleIdx :
                cells'[i].concentration = StatedUpdate(cells, cells[i], delta_t)
      ]_vars

\* a step has been committed for a Triangle with a Segment neighbour and a
\* Triangle neighbour, and its value is the staged one
C2_Witness ==
    /\ pc = "solver_aggregate"
    /\ \E i \in TriangleIdx :
          /\ TriangleEdgeSet(cells, cells[i]) # {}
          /\ TriangleEdgeSet(cells, cells[i]) # EdgeSet(cells[i])
          /\ StatedFluxSum(cells, cells[i], TriangleEdgeSet(cells, cells[i])) # Zero
          /\ cells[i].concentration = concentration_tmp[cells[i].id]

(***************************************************************************)
(* C3                                                                      *)
(***************************************************************************)
\* the edges of a Triangle with a Triangle neighbour, in edge order
TriangleEdgeSeq(cs, cell) ==
    SelectSeq(cell.edges, LAMBDA e : e \in TriangleEdgeSet(cs, cell))

\* C3: the fluxes oil_velocity returned for the Triangle just visited are, edge
\* by edge, concentration * v when v > 0 and concentration_neighbour * v
\* otherwise (0 when v = 0).
C3_UpwindFlux ==
    (pc \in {"solver_cell", "solver_commit"} /\ ci > 1 /\ cells[ci - 1].type = "triangle") =>
        LET cell == cells[ci - 1]
            es == TriangleEdgeSeq(cells, cell)
        IN  edges_net_flux = [k \in 1..Len(es) |-> StatedFlux(cells, cell, es[k])]

\* a Triangle was visited that has an outflow edge and an inflow edge, its own
\* concentration differing from the neighbours'
C3_Witness ==
    /\ pc \in {"solver_cell", "solver_commit"} /\ ci > 1
    /\ cells[ci - 1].type = "triangle"
    /\ Len(edges_net_flux) = 2
    /\ \E e \in TriangleEdgeSet(cells, cells[ci - 1]) :
          /\ RLt(Zero, EdgeV(cells[ci - 1], e))
          /\ NeighbourOf(cells, cells[ci - 1], e).concentration # cells[ci - 1].concentration
    /\ \E e \in TriangleEdgeSet(cells, cells[ci - 1]) :
          /\ RLt(EdgeV(cells[ci - 1], e), Zero)
          /\ NeighbourOf(cells, cells[ci - 1], e).concentration # cells[ci - 1].concentration

(***************************************************************************)
(* C4                                                                      *)
(***************************************************************************)
RECURSIVE MassOver(_, _)
\* the sum of concentration * area over the Triangles at the positions in I
MassOver(cs, I) ==
    IF I = {} THEN Zero
    ELSE LET i == CHOOSE x \in I : TRUE
         IN  RAdd(RMul(cs[i].concentration, cs[i].area), MassOver(cs, I \ {i}))

RECURSIVE InitialMassOver(_, _)
\* the same sum with the concentrations initial_conditions sets
InitialMassOver(cs, I) ==
    IF I = {} THEN Zero
    ELSE LET i == CHOOSE x \in I : TRUE
         IN  RAdd(RMul(initial_oil_concentration(cs[i].center_point), cs[i].area),
                  InitialMassOver(cs, I \ {i}))

\* C4: on a mesh built and initialised by the pipeline, the total of
\* concentration * area over all Triangles is, after every solver step, what
\* it was before the first.
C4_Conservation ==
    (pc \in {"initialised", "solver_cell", "solver_commit", "solver_aggregate", "done"}) =>
        MassOver(cells, TriangleIdx) = InitialMassOver(cells, TriangleIdx)

(***************************************************************************)
(* C5                                                                      *)
(***************************************************************************)
AfterInitialConditions ==
    pc \in {"initialised", "solver_cell", "solver_commit", "solver_aggregate", "done", "failed"}

\* the mean flow the rule gives for an edge with a recorded neighbour
StatedMeanFlow(cs, cell, e) ==
    IF NeighbourOf(cs, cell, e).type = "triangle"
    THEN VScale(VAdd(compute_flow_field(cell.center_point),
                     compute_flow_field(NeighbourOf(cs, cell, e).center_point)), R(1, 2))
    ELSE compute_flow_field(cell.center_point)

\* C5: after initial_conditions, for every Triangle and every edge with a
\* recorded neighbour, the stored mean flow is the average of the velocities at
\* the two centroids when the neighbour is a Triangle, and the cell's own
\* velocity when it is a Segment, whatever the neighbour's id.
C5_MeanFlowRule ==
    AfterInitialConditions =>
        \A i \in TriangleIdx :
            \A e \in EdgeSet(cells[i]) :
                IsIndex(DGet(cells[i].neighbour_ids, e)) =>
                    /\ e \in DOMAIN cells[i].mean_flow
                    /\ cells[i].mean_flow[e] = StatedMeanFlow(cells, cells[i], e)

(***************************************************************************)
(* C6                                                                      *)
(***************************************************************************)
\* everything of a cell but the concentration of a Triangle
Fixed(cell) ==
    IF cell.type = "triangle" THEN [cell EXCEPT !.concentration = Zero] ELSE cell

InsideIdx(cs, b) ==
    {i \in 1..Len(cs) :
        /\ cs[i].type = "triangle"
        /\ ~RLt(cs[i].center_point[1], b[1][1]) /\ ~RLt(b[1][2], cs[i].center_point[1])
        /\ ~RLt(cs[i].center_point[2], b[2][1]) /\ ~RLt(b[2][2], cs[i].center_point[2])}

\* C7: from the moment the scalar of a step is appended until the next commit,
\* the last entry of the series is the sum of concentration * area over the
\* Triangles whose centroid is inside the borders (bounds inclusive), taken
\* with the committed concentrations of that step.
C7_AggregateAfterCommit ==
    (pc \in {"solver_cell", "solver_commit", "done"} /\ oil_in_fishing_grounds # <<>>) =>
        oil_in_fishing_grounds[Len(oil_in_fishing_grounds)]
            = MassOver(cells, InsideIdx(cells, borders))

\* a scalar was recorded over a rectangle that has centroids on its boundary
\* and leaves oil outside
C7_Witness ==
    /\ pc = "done"
    /\ Len(oil_in_fishing_grounds) = 2
    /\ \E i \in InsideIdx(cells, borders) :
          /\ cells[i].center_point[1] = borders[1][1]
          /\ cells[i].center_point[2] = borders[2][1]
          /\ cells[i].concentration # Zero
    /\ MassOver(cells, InsideIdx(cells, borders)) # MassOver(cells, TriangleIdx)
    /\ oil_in_fishing_grounds[1] # oil_in_fishing_grounds[2]

(***************************************************************************)
(* C8                                                                      *)
(***************************************************************************)
\* every edge of every Triangle has a recorded neighbour
ValidMesh == \A i \in TriangleIdx : ~MissingNeighbour(cells[i])

\* inside the step loop the step number is below n and the series has one entry
\* per finished step; a call that returned has run all n steps; on a valid
\* mesh nothing fails and the cell loop always has its next cell
StepCount ==
    /\ InSolverStep =>
          /\ step < number_of_steps
          /\ Len(oil_in_fishing_grounds) = step
    /\ pc = "done" =>
          /\ step = number_of_steps
          /\ Len(oil_in_fishing_grounds) = number_of_steps
    /\ ValidMesh =>
          /\ pc # "failed"
          /\ pc = "solver_cell" => ci \in 1..Len(cells)

\* the series only grows, by one scalar at its end, when step goes up by one
AppendOnly ==
    \/ /\ oil_in_fishing_grounds' = oil_in_fishing_grounds
       /\ step' = step
    \/ /\ Len(oil_in_fishing_grounds') = Len(oil_in_fishing_grounds) + 1
       /\ SubSeq(oil_in_fishing_grounds', 1, Len(oil_in_fishing_grounds))
             = oil_in_fishing_grounds
       /\ step' = step + 1
       /\ Len(oil_in_fishing_grounds') = step'

\* what is left of the call: the passes of the cell loop, the commit and the
\* aggregate of the current step, and all of the steps after it
Remaining ==
    IF InSolverStep
    THEN (number_of_steps - step) * (Len(cells) + 2)
            - (CASE pc = "solver_cell" -> ci - 1
                 [] pc = "solver_commit" -> Len(cells)
                 [] pc = "solver_aggregate" -> Len(cells) + 1)
    ELSE 0

\* every move inside the call uses up some of what is left, and the call is
\* left only by returning or, on an invalid mesh, by failing
Progress ==
    InSolverStep =>
        /\ Remaining' < Remaining
        /\ pc' \in {"solver_cell", "solver_commit", "solver_aggregate", "done", "failed"}
        /\ pc' = "done" => Remaining = 1
        /\ number_of_steps' = number_of_steps

\* C8: solver(number_of_steps = n) on a valid initialised mesh ends (the run is
\* one synchronous thread, every move brings the return nearer and none is
\* blocked), having run the steps 0..n-1 in order and appended one scalar per
\* step to the series, earlier entries untouched; it never returns with fewer
\* than n steps run.
C8_RunsAllSteps ==
    /\ []StepCount
    /\ [][AppendOnly /\ Progress]_vars

\* a call with n = 2 returned on a valid mesh with two scalars recorded
C8_Witness ==
    /\ pc = "done"
    /\ ValidMesh
    /\ number_of_steps = 2
    /\ step = 2
    /\ Len(oil_in_fishing_grounds) = 2

(***************************************************************************)
(* C9                                                                      *)
(***************************************************************************)
\* the edges of a Triangle whose neighbour lookup finds no recorded neighbour
GapEdges(cell) == {e \in EdgeSet(cell) : ~IsIndex(DGet(cell.neighbour_ids, e))}

SomeGap == \E i \in TriangleIdx : GapEdges(cells[i]) # {}

NonNegative == \A i \in TriangleIdx : ~RLt(cells[i].concentration, Zero)

\* C10 as stated: the concentrations initial_conditions sets are non-negative
\* and a step keeps non-negative concentrations non-negative, for any delta_t,
\* so no Triangle ever has a negative concentration.
C10_NeverNegative == AfterInitialConditions => NonNegative

RECURSIVE OutflowOver(_, _)
\* the sum of the positive v over a set of edges of a Triangle
OutflowOver(cell, E) ==
    IF E = {} THEN Zero
    ELSE LET e == CHOOSE x \in E : TRUE
         IN  RAdd(IF RLt(Zero, EdgeV(cell, e)) THEN EdgeV(cell, e) ELSE Zero,
                  OutflowOver(cell, E \ {e}))

\* delta_t times the outflow of every Triangle over its Triangle-neighbour
\* edges is at most its area
StepBounded ==
    \A i \in TriangleIdx :
        RLe(RMul(delta_t, OutflowOver(cells[i], TriangleEdgeSet(cells, cells[i]))),
            cells[i].area)

\* C10 amended: if every Triangle's concentration is non-negative before a
\* step and delta_t * (sum of the positive v over the Triangle's edges with a
\* Triangle neighbour) <= area for every Triangle, every Triangle's
\* concentration is non-negative after the step.
C10_NonNegativeUnderStepBound ==
    [][ (pc = "solver_commit" /\ NonNegative /\ StepBounded) => NonNegative' ]_vars

\* two bounded steps were committed, oil left a cell and none went negative
C10_Witness ==
    /\ pc = "done"
    /\ step = 2
    /\ StepBounded
    /\ NonNegative
    /\ \E i \in TriangleIdx :
          /\ RLt(Zero, OutflowOver(cells[i], TriangleEdgeSet(cells, cells[i])))
          /\ RLt(cells[i].concentration, initial_oil_concentration(cells[i].center_point))

(***************************************************************************)
(* Vocabulary of the mesh properties                                       *)
(***************************************************************************)
\* the names of the methods called, in order
Methods == [j \in 1..Len(calls) |-> calls[j].method]

LastCall == IF calls = <<>> THEN "none" ELSE calls[Len(calls)].method

\* the positions in calls of the calls of one method
CallsOf(method) == {j \in 1..Len(calls) : calls[j].method = method}

\* the order in which run_config calls the methods of its Mesh
Pipeline == <<"read_mesh", "create_cells", "build_topology", "assign_neighbours">>

\* the mesh is in the hands of its builder: no Simulation has touched it
MeshOnly == pc \in {"mesh", "cells", "topology", "neighbours"}

\* every edge of every cell
AllEdges == UNION {EdgeSet(cells[i]) : i \in 1..Len(cells)}

\* the positions of the cells whose edge list contains the edge
SharedBy(e) == {i \in 1..Len(cells) : e \in EdgeSet(cells[i])}

\* the ids in a list of ids
IdSet(ids) == {ids[k] : k \in 1..Len(ids)}

\* every edge belongs to one Triangle and one other cell
ClosedMesh ==
    \A e \in AllEdges :
        /\ Cardinality(SharedBy(e)) = 2
        /\ \E i \in SharedBy(e) : cells[i].type = "triangle"

(***************************************************************************)
(* C11                                                                     *)
(***************************************************************************)
\* the neighbour map has one key per edge of the cell, each with one id
OneIdPerEdge(cell) ==
    /\ DOMAIN cell.neighbour_ids = EdgeSet(cell)
    /\ \A e \in EdgeSet(cell) : IsIndex(cell.neighbour_ids[e])

\* C11: whenever create_cells, build_topology and assign_neighbours have run
\* on a mesh without error, every Triangle has exactly one neighbour id for
\* each of its three edges, the keys of its neighbour map being its edges, and
\* every Segment has exactly one neighbour id, the id of a Triangle.
C11_OneNeighbourPerEdge ==
    (MeshOnly /\ Methods = Pipeline /\ err = "none") =>
        /\ \A i \in TriangleIdx : OneIdPerEdge(cells[i])
        /\ \A i \in LineIdx :
              /\ OneIdPerEdge(cells[i])
              /\ \A e \in EdgeSet(cells[i]) :
                    NeighbourOf(cells, cells[i], e).type = "triangle"

(***************************************************************************)
(* C12                                                                     *)
(***************************************************************************)
\* no neighbour map holds the id of its own cell
NoSelfReference ==
    \A i \in 1..Len(cells) :
        \A e \in DOMAIN cells[i].neighbour_ids :
            cells[i].neighbour_ids[e] # <<cells[i].id>>

\* assign_neighbours was the last call, and build_topology has run since the
\* last create_cells, so that the index knows every cell
AssignedFromFullIndex ==
    /\ MeshOnly
    /\ LastCall = "assign_neighbours"
    /\ \E b \in CallsOf("build_topology") :
          \A c \in CallsOf("create_cells") : c < b

\* C12: no cell ever records its own id as a neighbour, and after
\* assign_neighbours every edge shared by exactly two cells A and B has B as A's
\* neighbour across it and A as B's.
C12_MutualNeighbours ==
    /\ NoSelfReference
    /\ AssignedFromFullIndex =>
          \A a \in 1..Len(cells) : \A b \in 1..Len(cells) :
              \A e \in EdgeSet(cells[a]) :
                  (a # b /\ SharedBy(e) = {a, b}) =>
                      /\ e \in DOMAIN cells[a].neighbour_ids
                      /\ cells[a].neighbour_ids[e] = <<cells[b].id>>
                      /\ e \in DOMAIN cells[b].neighbour_ids
                      /\ cells[b].neighbour_ids[e] = <<cells[a].id>>

\* after the three calls, an edge between two Triangles and an edge between a
\* Triangle and a Segment, each cell of a pair recorded by the other
C12_Witness ==
    /\ Methods = Pipeline
    /\ pc = "mesh"
    /\ \E a \in TriangleIdx : \E b \in TriangleIdx : \E e \in EdgeSet(cells[a]) :
          /\ a # b /\ SharedBy(e) = {a, b}
          /\ cells[a].neighbour_ids[e] = <<cells[b].id>>
    /\ \E a \in TriangleIdx : \E b \in LineIdx : \E e \in EdgeSet(cells[a]) :
          /\ SharedBy(e) = {a, b}
          /\ cells[b].neighbour_ids[e] = <<cells[a].id>>

(***************************************************************************)
(* C13                                                                     *)
(***************************************************************************)
\* build_topology has been called once, after every call of create_cells
BuiltOnce ==
    /\ MeshOnly
    /\ Cardinality(CallsOf("build_topology")) = 1
    /\ \A b \in CallsOf("build_topology") :
          \A c \in CallsOf("create_cells") : c < b

\* C13: after build_topology the adjacency list of every edge key holds
\* exactly the ids of the cells whose edge list contains the edge, each id
\* once, and every edge of every cell is a key; so on a mesh in which every
\* edge belongs to one Triangle and one other cell every list has 2 ids.
C13_AdjacencyIndex ==
    BuiltOnce =>
        /\ AllEdges \subseteq DOMAIN mesh_edges
        /\ \A e \in DOMAIN mesh_edges :
              /\ IdSet(mesh_edges[e]) = {cells[i].id : i \in SharedBy(e)}
              /\ Len(mesh_edges[e]) = Cardinality(SharedBy(e))
        /\ ClosedMesh =>
              /\ \A e \in DOMAIN mesh_edges : Len(mesh_edges[e]) = 2
              /\ \A i \in 1..Len(cells) : \A e \in EdgeSet(cells[i]) :
                    cells[i].id \in IdSet(mesh_edges[e])

\* the index of a closed mesh was built: an edge with a Segment and a
\* Triangle, and an edge with two Triangles
C13_Witness ==
    /\ BuiltOnce
    /\ pc = "mesh"
    /\ ClosedMesh
    /\ Len(cells) = 10
    /\ \E e \in DOMAIN mesh_edges :
          \E i \in LineIdx : \E j \in TriangleIdx : SharedBy(e) = {i, j}
    /\ \E e \in DOMAIN mesh_edges : \E i \in TriangleIdx : \E j \in TriangleIdx :
          i # j /\ SharedBy(e) = {i, j}

(***************************************************************************)
(* C14                                                                     *)
(***************************************************************************)
\* an edge of the adjacency index whose list has neither 1 nor 2 ids
BadEdges == {e \in DOMAIN mesh_edges : Len(mesh_edges[e]) \notin {1, 2}}

\* C14: a mesh whose adjacency index has an edge with a list of neither 1 nor
\* 2 ids gets no further than topology construction, which fails with
\* InconsistentTopologyError: no Simulation is built on it, and the solver
\* never runs on it.
C14_BadTopologyRejected ==
    BadEdges # {} =>
        \/ pc = "topology"
        \/ pc = "aborted" /\ err = "InconsistentTopologyError"

(***************************************************************************)
(* C15                                                                     *)
(***************************************************************************)
\* the positions j at which build_topology, assign_neighbours were called and
\* then, on the same cells, called again
TwiceAt ==
    {j \in 1..(Len(calls) - 3) :
        /\ calls[j].method = "build_topology"
        /\ calls[j + 1].method = "assign_neighbours"
        /\ calls[j + 2].method = "build_topology"
        /\ calls[j + 3].method = "assign_neighbours"}

\* C15: when build_topology and assign_neighbours are called a second time on
\* the same mesh, the adjacency index and every cell's neighbour map are,
\* after the second pair of calls, what they were after the first.
C15_TopologyIdempotent ==
    \A j \in TwiceAt :
        /\ calls[j + 3].mesh_edges = calls[j + 1].mesh_edges
        /\ calls[j + 3].neighbour_ids = calls[j + 1].neighbour_ids

\* the half of C15 about the neighbour maps
C15_NeighbourMapsOnly ==
    \A j \in TwiceAt : calls[j + 3].neighbour_ids = calls[j + 1].neighbour_ids

(***************************************************************************)
(* C16                                                                     *)
(***************************************************************************)
\* the id of every cell is its index in the list: ids are 0, 1, 2, ... in order
IdIsIndex == \A i \in 1..Len(cells) : cells[i].id = i - 1

\* mesh.cells[neighbour_id] is the cell with that id
LookupById ==
    \A i \in 1..Len(cells) :
        \A e \in DOMAIN cells[i].neighbour_ids :
            IsIndex(cells[i].neighbour_ids[e]) =>
                /\ cells[i].neighbour_ids[e][1] \in 0..(Len(cells) - 1)
                /\ CellAt(cells, cells[i].neighbour_ids[e][1]).id = cells[i].neighbour_ids[e][1]

\* the cell list only grows at its end; the cells in it keep their place,
\* their id, their kind and their nodes
CellsAppendOnly ==
    /\ Len(cells') >= Len(cells)
    /\ \A i \in 1..Len(cells) :
          /\ cells'[i].id = cells[i].id
          /\ cells'[i].type = cells[i].type
          /\ cells'[i].nodes = cells[i].nodes

\* C16: in every state of a Mesh, however often create_cells was called (and
\* also after a call that an exception ended), each cell's id is its index in
\* the cell list, so ids are contiguous from 0 and mesh.cells[neighbour_id] is
\* the cell whose id is neighbour_id; cells are only ever appended.
C16_IdIsIndex ==
    /\ [](IdIsIndex /\ LookupById)
    /\ [][CellsAppendOnly]_vars

\* create_cells ran twice and the second batch of cells took part in the
\* neighbour assignment
C16_Witness ==
    /\ Cardinality(CallsOf("create_cells")) = 2
    /\ LastCall = "assign_neighbours"
    /\ Len(cells) = 20
    /\ cells[20].id = 19
    /\ \E i \in 1..Len(cells) : \E e \in DOMAIN cells[i].neighbour_ids :
          cells[i].neighbour_ids[e] = <<19>>

\* a call of create_cells that an exception ended left cells in the list
C16_PartialWitness ==
    /\ pc = "aborted"
    /\ LastCall = "create_cells"
    /\ Len(cells) > 0

(***************************************************************************)
(* Vocabulary of the properties of cell construction                       *)
(***************************************************************************)
\* a CellFactory was called with a record
FactoryCalled == pc \in {"made", "aborted"} /\ record # NoCell

\* every cell there is: the cells of the mesh and the factory's product
EveryCell ==
    {cells[i] : i \in 1..Len(cells)} \cup (IF product = NoCell THEN {} ELSE {product})

\* the two nodes of an edge key
Ends(e) == {e[1], e[2]}

\* the node after position k in a node tuple of length n, cyclically
NextNode(nodes, k) == nodes[(k % Len(nodes)) + 1]

(***************************************************************************)
(* C17                                                                     *)
(***************************************************************************)
\* C17: a Triangle built from nodes (a, b, c) has exactly the 3 edges {a,b},
\* {b,c}, {c,a}, in this order, and a Segment built from (a, b) exactly the 1
\* edge {a,b}; each edge is stored as the sorted pair, so two cells that list
\* the same two nodes in either order have the same edge key.
C17_Edges ==
    /\ \A cell \in EveryCell :
          /\ Len(cell.edges) = (IF cell.type = "triangle" THEN 3 ELSE 1)
          /\ Len(cell.nodes) = (IF cell.type = "triangle" THEN 3 ELSE 2)
          /\ \A k \in 1..Len(cell.edges) :
                /\ Ends(cell.edges[k]) = {cell.nodes[k], NextNode(cell.nodes, k)}
                /\ cell.edges[k][1] <= cell.edges[k][2]
    /\ \A c1 \in EveryCell : \A c2 \in EveryCell :
          \A e1 \in EdgeSet(c1) : \A e2 \in EdgeSet(c2) :
              Ends(e1) = Ends(e2) => e1 = e2
    /\ (FactoryCalled /\ pc = "made") => product.nodes = record.nodes

\* a Triangle was built from nodes listed in descending order
C17_Witness ==
    /\ pc = "made"
    /\ record.nodes = <<4, 1, 0>>
    /\ product.type = "triangle"
    /\ product.edges = << <<1, 4>>, <<0, 1>>, <<0, 4>> >>

\* a mesh holds two Triangles that list the two nodes of their common edge in
\* opposite orders
C17_MeshWitness ==
    /\ pc = "mesh"
    /\ \E i \in TriangleIdx : \E j \in TriangleIdx : \E k \in 1..3 : \E l \in 1..3 :
          /\ i # j
          /\ cells[i].nodes[k] = NextNode(cells[j].nodes, l)
          /\ NextNode(cells[i].nodes, k) = cells[j].nodes[l]
          /\ cells[i].edges[k] = cells[j].edges[l]

(***************************************************************************)
(* C18                                                                     *)
(***************************************************************************)
\* the record asks for a Triangle with other than 3 nodes or a Segment with
\* other than 2
WrongNodeCount ==
    \/ record.type = "triangle" /\ Len(record.nodes) # 3
    \/ record.type = "line" /\ Len(record.nodes) # 2

\* C18: constructing a Triangle with a node count other than 3, or a Segment
\* with a node count other than 2, fails and produces no cell; the failure is
\* the AssertionError of define_edges, the error of this kind that the spec
\* names MalformedCellError, and no other construction raises it.
C18_WrongNodeCountFails ==
    FactoryCalled =>
        /\ WrongNodeCount => (pc = "aborted" /\ err = "AssertionError" /\ product = NoCell)
        /\ err = "AssertionError" => WrongNodeCount

\* a Triangle was asked for with 4 nodes, whose first 3 would make a Triangle
C18_Witness ==
    /\ FactoryCalled
    /\ record.type = "triangle"
    /\ record.nodes = <<0, 1, 4, 3>>
    /\ pc = "aborted"
    /\ err = "AssertionError"
    /\ product = NoCell

\* a Segment was asked for with 3 nodes
C18_LineWitness ==
    /\ FactoryCalled
    /\ record.type = "line"
    /\ Len(record.nodes) = 3
    /\ err = "AssertionError"

(***************************************************************************)
(* C19                                                                     *)
(***************************************************************************)
\* two of the nodes listed, at different positions, have the same coordinate
CoincidentNodes(nodes, coords) ==
    \E j \in 1..Len(nodes) : \E k \in 1..Len(nodes) :
        j < k /\ coords[nodes[j]] = coords[nodes[k]]

\* the rows of the triangle blocks read, with the coordinates of their nodes
TriangleRowsRead ==
    UNION { {<<mesh_cell_blocks[b].data[r], points>> :
                r \in 1..Len(mesh_cell_blocks[b].data)} :
            b \in {x \in 1..Len(mesh_cell_blocks) : mesh_cell_blocks[x].type = "triangle"} }

\* C19: constructing a Triangle (3 nodes) one of whose edges has zero length,
\* two of its nodes having the same coordinate, fails in the normal
\* computation and produces no cell; the failure is the ValueError of
\* compute_normal, the error the spec names DegenerateGeometryError.  So no
\* Triangle with such an edge exists, and create_cells stops at such a row.
C19_ZeroLengthEdgeFails ==
    /\ FactoryCalled =>
          /\ (record.type = "triangle" /\ Len(record.nodes) = 3
                 /\ CoincidentNodes(record.nodes, record.coords))
                => (pc = "aborted" /\ err = "ValueError" /\ product = NoCell)
          /\ err = "ValueError" =>
                (record.type = "triangle" /\ CoincidentNodes(record.nodes, record.coords))
    /\ \A cell \in EveryCell :
          cell.type = "triangle" => ~CoincidentNodes(cell.nodes, cell.coords)
    /\ (LastCall = "create_cells" /\ pc # "aborted") =>
          \A row \in TriangleRowsRead :
              ~CoincidentNodes(row[1], [p \in 0..(Len(row[2]) - 1) |-> row[2][p + 1]])

\* a Triangle was asked for whose three nodes are distinct and whose first
\* two lie at the same place
C19_Witness ==
    /\ FactoryCalled
    /\ record.type = "triangle"
    /\ record.nodes = <<0, 6, 1>>
    /\ pc = "aborted"
    /\ err = "ValueError"
    /\ product = NoCell

\* create_cells stopped at the Triangle (6, 4, 0) of a mesh, after the cells
\* before it
C19_MeshWitness ==
    /\ LastCall = "create_cells"
    /\ pc = "aborted"
    /\ err = "ValueError"
    /\ Len(cells) = 7

(***************************************************************************)
(* C20                                                                     *)
(***************************************************************************)
\* C20: a factory called with a record whose type tag is not registered fails
\* and constructs no cell, whatever the nodes of the record; the failure is the
\* KeyError of the registry lookup, the error the spec names
\* UnknownCellTypeError.  So every cell is of a registered type, and
\* create_cells stops at a block of another type (other than "vertex", which
\* it skips).
C20_UnknownTagFails ==
    /\ FactoryCalled =>
          /\ record.type \notin DOMAIN DefaultCellTypes
                => (pc = "aborted" /\ err = "KeyError" /\ product = NoCell)
          /\ err = "KeyError" => record.type \notin DOMAIN DefaultCellTypes
    /\ \A cell \in EveryCell : cell.type \in DOMAIN DefaultCellTypes
    /\ (LastCall = "create_cells" /\ pc # "aborted") =>
          \A b \in 1..Len(mesh_cell_blocks) :
              mesh_cell_blocks[b].type \in (DOMAIN DefaultCellTypes) \cup {"vertex"}

\* a factory was called with the tag "quad" and four nodes
C20_Witness ==
    /\ FactoryCalled
    /\ record.type = "quad"
    /\ record.nodes = <<0, 1, 4, 3>>
    /\ pc = "aborted"
    /\ err = "KeyError"
    /\ product = NoCell

\* create_cells stopped at the quad block of a mesh, after the line block
C20_MeshWitness ==
    /\ LastCall = "create_cells"
    /\ pc = "aborted"
    /\ err = "KeyError"
    /\ Len(cells) = 6

(***************************************************************************)
(* C21                                                                     *)
(***************************************************************************)
\* the positions of the register calls made with the tag
RegisteredAt(key) == {i \in 1..Len(registrations) : registrations[i][1] = key}

\* the first of them
FirstAt(key) == CHOOSE i \in RegisteredAt(key) : \A j \in RegisteredAt(key) : i <= j

\* C21: register(tag, constructor) adds the tag only if it is absent.  After
\* any sequence of register calls the registry holds the two built-in tags and
\* the tags registered, "line" and "triangle" still map to Line and Triangle,
\* and every other tag maps to the constructor of its first registration.
C21_FirstRegistrationWins ==
    /\ DOMAIN cell_types =
          {"line", "triangle"} \cup {registrations[i][1] : i \in 1..Len(registrations)}
    /\ cell_types["line"] = "Line"
    /\ cell_types["triangle"] = "Triangle"
    /\ \A key \in (DOMAIN cell_types) \ {"line", "triangle"} :
          cell_types[key] = registrations[FirstAt(key)][2]

\* "rectangle" was registered twice, with DummyRectangle and then with
\* Triangle, and maps to DummyRectangle
C21_Witness ==
    /\ registrations = << <<"rectangle", "DummyRectangle">>, <<"rectangle", "Triangle">> >>
    /\ cell_types["rectangle"] = "DummyRectangle"

\* "line" was registered with DummyRectangle and maps to Line
C21_BuiltInWitness ==
    /\ \E i \in 1..Len(registrations) : registrations[i] = <<"line", "DummyRectangle">>
    /\ cell_types["line"] = "Line"

(***************************************************************************)
(* C22                                                                     *)
(***************************************************************************)
\* the factory was called after the registrations
Invoked == pc \in {"returned", "raised"}

\* the number of edges an object of the class has
EdgeCount(class) ==
    IF class = "Line" THEN 1 ELSE IF class = "Triangle" THEN 3 ELSE 4

\* C22: the factory called with a record {type, id, nodes, coords} whose tag
\* is registered hands the record to the constructor registered for the tag:
\* the cell it returns is an object of that class, and its id, node tuple and
\* coordinate mapping are the record's; the only way it does not return is an
\* exception of that constructor (a wrong node count, an edge of zero length),
\* never the KeyError of the lookup.  This holds for "line" and "triangle" and
\* for tags added with register.
C22_Dispatch ==
    (Invoked /\ record.type \in DOMAIN cell_types) =>
        LET class == cell_types[record.type]
        IN  /\ pc = "returned" =>
                  /\ product.type = TypeOf(class)
                  /\ Len(product.edges) = EdgeCount(class)
                  /\ product.id = record.id
                  /\ product.nodes = record.nodes
                  /\ product.coords = record.coords
            /\ pc = "raised" =>
                  /\ err \in {"AssertionError", "ValueError"}
                  /\ product = NoCell
                  /\ err = "ValueError" => class = "Triangle"
            /\ Len(record.nodes) = EdgeCount(class) + (IF class = "Line" THEN 1 ELSE 0)
                  /\ ~CoincidentNodes(record.nodes, record.coords)
                  => pc = "returned"

\* the tag "rectangle", registered with DummyRectangle, and a record with id
\* 99 and four nodes gave a DummyRectangle with id 99
C22_Witness ==
    /\ pc = "returned"
    /\ registrations = << <<"rectangle", "DummyRectangle">> >>
    /\ cell_types["rectangle"] = "DummyRectangle"
    /\ record.type = "rectangle"
    /\ record.id = 99
    /\ product.type = "rectangle"
    /\ product.id = 99
    /\ product.nodes = <<0, 1, 4, 3>>

\* the tag "rectangle", registered with Triangle, gave a Triangle
C22_AliasWitness ==
    /\ pc = "returned"
    /\ "rectangle" \in DOMAIN cell_types
    /\ cell_types["rectangle"] = "Triangle"
    /\ record.type = "rectangle"
    /\ product.type = "triangle"

\* a built-in tag gave its class after a registration tried to replace it
C22_BuiltInWitness ==
    /\ pc = "returned"
    /\ registrations = << <<"triangle", "DummyRectangle">> >>
    /\ record.type = "triangle"
    /\ product.type = "triangle"
    /\ product.id = record.id

(***************************************************************************)
(* C23                                                                     *)
(***************************************************************************)
\* the Triangles there are
EveryTriangle == {cell \in EveryCell : cell.type = "triangle"}

\* the centroid of a Triangle: the mean of its three vertices
Centroid(cell) ==
    VScale(VAdd(VAdd(cell.coords[cell.nodes[1]], cell.coords[cell.nodes[2]]),
                cell.coords[cell.nodes[3]]), R(1, 3))

\* the vector along an edge and the middle of the edge
Along(cell, e) == VSub(cell.coords[e[2]], cell.coords[e[1]])
Midpoint(cell, e) == VScale(VAdd(cell.coords[e[1]], cell.coords[e[2]]), R(1, 2))

\* C23: for every Triangle constructed and each of its three edges, the normal
\* stored is perpendicular to the edge, its magnitude is the edge length (the
\* squares are compared), and it points away from the interior: its dot
\* product with (centroid - edge midpoint) is <= 0.
C23_OutwardNormals ==
    \A cell \in EveryTriangle :
        /\ DOMAIN cell.normals = EdgeSet(cell)
        /\ \A e \in EdgeSet(cell) :
              LET n == cell.normals[e]
              IN  /\ Dot(n, Along(cell, e)) = Zero
                  /\ Dot(n, n) = Dot(Along(cell, e), Along(cell, e))
                  /\ RLe(Dot(n, VSub(Centroid(cell), Midpoint(cell, e))), Zero)

\* the edge vector turned by a quarter turn, the candidate of compute_normal
Turned(cell, e) == <<RNeg(Along(cell, e)[2]), Along(cell, e)[1]>>

\* a Triangle was built one of whose normals is the candidate negated and
\* another the candidate itself, both strictly outward
C23_Witness ==
    /\ pc = "made"
    /\ product.type = "triangle"
    /\ \E e \in EdgeSet(product) : \E f \in EdgeSet(product) :
          /\ product.normals[e] = VNeg(Turned(product, e))
          /\ product.normals[f] = Turned(product, f)
          /\ RLt(Dot(product.normals[e], VSub(Centroid(product), Midpoint(product, e))), Zero)
          /\ RLt(Dot(product.normals[f], VSub(Centroid(product), Midpoint(product, f))), Zero)

\* the Triangles of a mesh have their normals
C23_MeshWitness ==
    /\ pc = "mesh"
    /\ Cardinality(EveryTriangle) >= 4

(***************************************************************************)
(* C24                                                                     *)
(***************************************************************************)
\* twice the signed area of the triangle (a, b, c): the cross product of
\* b - a and c - a
Cross(a, b, c) ==
    RSub(RMul(RSub(b[1], a[1]), RSub(c[2], a[2])),
         RMul(RSub(b[2], a[2]), RSub(c[1], a[1])))

\* the same for the vertices of a cell in node order, and in the reverse order
Shoelace(cell) ==
    Cross(cell.coords[cell.nodes[1]], cell.coords[cell.nodes[2]], cell.coords[cell.nodes[3]])
ShoelaceReversed(cell) ==
    Cross(cell.coords[cell.nodes[3]], cell.coords[cell.nodes[2]], cell.coords[cell.nodes[1]])

\* the record asks for a Triangle with three nodes at three different places
ProperTriangleRecord ==
    /\ FactoryCalled
    /\ record.type = "triangle"
    /\ Len(record.nodes) = 3
    /\ ~CoincidentNodes(record.nodes, record.coords)

\* C24: the area of a Triangle is the absolute value of the shoelace formula
\* over its three vertices, halved: it is never negative, it is the same for
\* the vertices in clockwise and in counter-clockwise order, and a Triangle
\* with three distinct collinear vertices is constructed without error, with
\* area 0.
C24_Area ==
    /\ \A cell \in EveryTriangle :
          /\ RLe(Zero, cell.area)
          /\ cell.area = RDiv(RAbs(Shoelace(cell)), Two)
          /\ cell.area = RDiv(RAbs(ShoelaceReversed(cell)), Two)
    /\ ProperTriangleRecord =>
          /\ pc = "made" /\ err = "none" /\ product.type = "triangle"
          /\ Shoelace(product) = Zero => product.area = Zero

\* a Triangle was built from vertices in clockwise order
C24_Witness ==
    /\ pc = "made"
    /\ product.type = "triangle"
    /\ RLt(Shoelace(product), Zero)
    /\ RLt(Zero, product.area)

\* a Triangle was built from three distinct collinear vertices
C24_CollinearWitness ==
    /\ pc = "made"
    /\ product.type = "triangle"
    /\ record.nodes = <<0, 1, 2>>
    /\ product.area = Zero

(***************************************************************************)
(* C25                                                                     *)
(***************************************************************************)
\* C25: compute_flow_field at a point (x, y) returns the vector
\* (y - 0.2 x, -x), whenever it is called, before or after any number of
\* solver steps; (0.4, 0.5) gives (0.42, -0.4) and the origin gives (0, 0).
C25_FlowField ==
    pc = "asked" =>
        /\ flow[1] = RSub(point[2], RDiv(point[1], R(5, 1)))
        /\ RAdd(flow[2], point[1]) = Zero
        /\ point = <<R(4, 10), R(5, 10)>> => flow = <<R(42, 100), R(-4, 10)>>
        /\ point = <<Zero, Zero>> => flow = <<Zero, Zero>>

\* the field was asked for at (0.4, 0.5) after a solver run of two steps
C25_Witness ==
    /\ pc = "asked"
    /\ point = <<R(4, 10), R(5, 10)>>
    /\ flow = <<R(42, 100), R(-4, 10)>>
    /\ Len(oil_in_fishing_grounds) = 2

\* the field was asked for at the origin before initial_conditions
C25_OriginWitness ==
    /\ pc = "asked"
    /\ point = <<Zero, Zero>>
    /\ flow = <<Zero, Zero>>
    /\ oil_in_fishing_grounds = <<>>
    /\ \A i \in TriangleIdx : cells[i].mean_flow = EmptyDict

(***************************************************************************)
(* C29                                                                     *)
(***************************************************************************)
\* C29: after initial_conditions on a mesh with valid topology, the mean flow
\* stored for a shared edge is the same in the two Triangles that share it,
\* whatever their ids, 0 included.
C29_MeanFlowSymmetric ==
    (AfterInitialConditions /\ ClosedMesh) =>
        \A i \in TriangleIdx : \A j \in TriangleIdx :
            \A e \in EdgeSet(cells[i]) \cap EdgeSet(cells[j]) :
                cells[i].mean_flow[e] = cells[j].mean_flow[e]

\* the same for the pairs of Triangles neither of which has id 0
C29_SymmetricAwayFromZero ==
    (AfterInitialConditions /\ ClosedMesh) =>
        \A i \in TriangleIdx : \A j \in TriangleIdx :
            (cells[i].id # 0 /\ cells[j].id # 0) =>
                \A e \in EdgeSet(cells[i]) \cap EdgeSet(cells[j]) :
                    cells[i].mean_flow[e] = cells[j].mean_flow[e]

(***************************************************************************)
(* C30                                                                     *)
(***************************************************************************)
\* the cells initial_conditions leaves on the mesh read
InitialCells ==
    LET made == create_cells(<<>>, mesh_cell_blocks, points).cells
    IN  initial_conditions(assign_neighbours(made, build_topology(EmptyDict, made)))

\* the solver calls that have returned ran this many steps together
StepsRun == Len(oil_in_fishing_grounds)

\* C30: solver runs compose.  When a call of solver has returned, after any
\* number of earlier calls with the same delta_t, the concentration of every
\* Triangle and the whole series are those one call of solver with the sum of
\* the step counts gives on the cells initial_conditions left; the series has
\* one entry per step of all the calls.
C30_SolverComposes ==
    pc = "done" =>
        LET single == solver(InitialCells, <<>>, borders, StepsRun, delta_t)
        IN  /\ oil_in_fishing_grounds = single.series
            /\ \A i \in TriangleIdx :
                  cells[i].concentration = single.cells[i].concentration

\* solver(1) and then solver(1) have returned, and the two steps changed the
\* concentrations and the series
C30_Witness ==
    /\ pc = "done"
    /\ number_of_steps = 1
    /\ StepsRun = 2
    /\ oil_in_fishing_grounds[1] # oil_in_fishing_grounds[2]
    /\ \E i \in TriangleIdx :
          cells[i].concentration # InitialCells[i].concentration

(***************************************************************************)
(* C26                                                                     *)
(***************************************************************************)
\* load_config was called
Loaded == cfg # NotLoaded

\* the value is a TOML integer, a TOML number
IsInteger(v) == v.type = "int"
IsNumber(v) == v.type \in {"int", "float"}

\* the section is a table with the key
HasKey(data, section, key) ==
    /\ section \in DOMAIN data
    /\ data[section].type = "table"
    /\ key \in DOMAIN data[section].fields

\* borders has the form [[xmin, xmax], [ymin, ymax]] with xmin < xmax and
\* ymin < ymax
WellFormedBorders(v) ==
    /\ v.type = "list"
    /\ Len(v.items) = 2
    /\ \A i \in 1..2 :
          /\ v.items[i].type = "list"
          /\ Len(v.items[i].items) = 2
          /\ \A j \in 1..2 : IsNumber(v.items[i].items[j])
          /\ RLt(v.items[i].items[1].num, v.items[i].items[2].num)

\* the file passes every validation: it is there, it is TOML, every mandatory
\* field is there, and every field has its type, shape and range
ValidConfigFile(file) ==
    /\ file.state = "parsed"
    /\ HasKey(file.data, "settings", "nSteps")
    /\ HasKey(file.data, "settings", "tEnd")
    /\ HasKey(file.data, "geometry", "meshName")
    /\ HasKey(file.data, "geometry", "borders")
    /\ LET settings == file.data["settings"].fields
           geometry == file.data["geometry"].fields
       IN  /\ IsInteger(settings["nSteps"]) /\ RLt(Zero, settings["nSteps"].num)
           /\ IsNumber(settings["tEnd"]) /\ RLt(Zero, settings["tEnd"].num)
           /\ geometry["meshName"].type = "str" /\ geometry["meshName"].text # ""
           /\ WellFormedBorders(geometry["borders"])
    /\ "IO" \in DOMAIN file.data =>
          /\ file.data["IO"].type = "table"
          /\ HasKey(file.data, "IO", "logName") =>
                file.data["IO"].fields["logName"].type = "str"
          /\ HasKey(file.data, "IO", "writeFrequency") =>
                /\ IsInteger(file.data["IO"].fields["writeFrequency"])
                /\ RLt(Zero, file.data["IO"].fields["writeFrequency"].num)

\* C26: load_config returns a configuration only when the step count is a
\* positive integer, the total time a positive number and the borders satisfy
\* xmin < xmax and ymin < ymax; for every input that fails a validation
\* (missing file, invalid TOML, missing or ill-typed or ill-shaped field) it
\* raises ConfigError, never another exception and never a returned
\* configuration.
C26_ValidOrConfigError ==
    Loaded =>
        /\ cfg.err \in {"none", "ConfigError"}
        /\ cfg.err = "none" => ValidConfigFile(config_file)
        /\ ~ValidConfigFile(config_file) => cfg.err = "ConfigError"

\* the part that holds: a configuration returned has a step count above 0, a
\* total time above 0 and borders with xmin < xmax and ymin < ymax, and
\* a valid file is accepted
C26_ReturnedInRange ==
    Loaded =>
        /\ cfg.err = "none" =>
              /\ RLt(Zero, cfg.value.n_steps.num)
              /\ cfg.value.t_end.type = "float" /\ RLt(Zero, cfg.value.t_end.num)
              /\ RLt(cfg.value.borders[1][1], cfg.value.borders[1][2])
              /\ RLt(cfg.value.borders[2][1], cfg.value.borders[2][2])
        /\ ValidConfigFile(config_file) => cfg.err = "none"

(***************************************************************************)
(* C27                                                                     *)
(***************************************************************************)
\* the attributes of the Mesh, the Simulation and the solver are as at the
\* start: no Mesh method, no initial_conditions and no solver step has run
NothingRun ==
    /\ calls = <<>>
    /\ points = <<>> /\ mesh_cell_blocks = <<>> /\ cells = <<>> /\ mesh_edges = EmptyDict
    /\ borders = NoBorders
    /\ oil_in_fishing_grounds = <<>>
    /\ step = 0 /\ number_of_steps = 0

\* C27: when load_config raises ConfigError, run_config returns without
\* raising, and without constructing a Mesh, creating a results folder or
\* running any solver step.
C27_ConfigErrorReturns ==
    (Loaded /\ cfg.err = "ConfigError") =>
        /\ pc = "returned"
        /\ err = "none"
        /\ manager = "none"
        /\ NothingRun
        /\ result_folder.state # "created"
        /\ result_folder.files = {}

\* run_config was called with a file whose nSteps is 0 and no results folder
C27_Witness ==
    /\ pc = "returned"
    /\ cfg.err = "ConfigError"
    /\ config_file.state = "parsed"
    /\ HasKey(config_file.data, "settings", "nSteps")
    /\ config_file.data["settings"].fields["nSteps"] = TomlInt(0)
    /\ result_folder = [state |-> "absent", files |-> {}]

\* run_config was called with no file at config_path
C27_MissingFileWitness ==
    /\ pc = "returned"
    /\ cfg.err = "ConfigError"
    /\ config_file.state = "missing"

(***************************************************************************)
(* C28                                                                     *)
(***************************************************************************)
\* results/<config stem> was there when run_config was called
FolderExisted == result_folder.state \in {"dir", "file"}

\* run_config is past its test of result_folder
PastFolderTest ==
    /\ manager = "Mesh"
    /\ LastCall = "assign_neighbours"
    /\ pc # "neighbours"

\* C28: run_config never overwrites existing results.  If results/<config
\* stem> exists, nothing is written into it, neither log file nor plot nor
\* video, and neither initial_conditions nor a solver step runs; a run that
\* comes to the test of the folder ends there with RuntimeError, which has no
\* other cause.  Otherwise run_config creates the folder, and only then
\* writes and simulates.
C28_NoOverwrite ==
    /\ FolderExisted =>
          /\ result_folder.files = {}
          /\ borders = NoBorders
          /\ oil_in_fishing_grounds = <<>>
          /\ step = 0 /\ number_of_steps = 0
          /\ \A i \in TriangleIdx :
                cells[i].mean_flow = EmptyDict /\ cells[i].concentration = Zero
          /\ PastFolderTest => (pc = "raised" /\ err = "RuntimeError")
    /\ err = "RuntimeError" => (FolderExisted /\ PastFolderTest)
    /\ (PastFolderTest /\ ~FolderExisted) => result_folder.state = "created"
    /\ (result_folder.files # {} \/ borders # NoBorders) => result_folder.state = "created"

\* a run with a valid configuration and a valid mesh found the folder of an
\* earlier run and raised RuntimeError
C28_Witness ==
    /\ pc = "raised"
    /\ err = "RuntimeError"
    /\ result_folder = [state |-> "dir", files |-> {}]
    /\ LastCall = "assign_neighbours"
    /\ ClosedMesh

\* a run found no folder, created it and finished with the log, the plot and
\* the video in it
C28_FinishedWitness ==
    /\ pc = "finished"
    /\ result_folder = [state |-> "created",
                         files |-> {"log", "simulation_plot.png", "simulation.mp4"}]
    /\ Len(oil_in_fishing_grounds) = 2

====
